---- MODULE Spec2Model ----
(***************************************************************************)
(* A model of the lutris runner lifecycle code:                            *)
(*   - lutris/runners/winebattlenet.py: the Battle.net runner (install     *)
(*     job with its heartbeat, prelaunch shutdown escalation, stop,        *)
(*     remove_game_data, play);                                            *)
(*   - lutris/runners/runner.py: the generic Runner (install,              *)
(*     install_dialog, get_runner_url, download_and_extract).              *)
(*                                                                         *)
(* Everything the runner does runs on the GLib main thread: `pc` is the    *)
(* position of that thread ("loop" when it is idle in the main loop) and   *)
(* `ctx` the outermost handler it is executing.  External processes (the   *)
(* installer, Battle.net.exe, the download) change state on their own.     *)
(***************************************************************************)
EXTENDS Integers, Sequences, FiniteSets, TLC

\* ---------------------------------------------------------------- bounds
\* Heartbeat ticks of one install job that a behaviour follows.
MaxTicks == 3
\* Invocations of the stop command of the installer thread.
MaxStops == 2

\* ------------------------------------------------------ program constants
\* check_shutdown(is_running, times=10): polls of the graceful tier.
TIER1_POLLS == 10
\* check_shutdown(is_running, 5): polls of the force-kill tier.
TIER2_POLLS == 5

None == "None"
default_arch == "win32"

VARIABLES
    pc,                 \* position of the main thread
    ctx,                \* outermost handler being executed
    \* filesystem
    prefixes,           \* prefix directory -> "absent" or the arch it was created with
    users64,            \* prefix64/drive_c/users: "absent" | "dir" | "link"
    pdata64,            \* prefix64/drive_c/ProgramData: "absent" | "dir" | "link"
    bnetInstalled,      \* the Battle.net launcher executable is on disk
    \* install job of winebattlenet.install
    hasDownloader,      \* a downloader override was passed
    hasCallback,        \* a completion callback was passed
    download,           \* "none" | "running" | "ok" | "failed"
    ensured32,          \* get_or_create_default_prefix() was called by the job
    ensured64,          \* get_or_create_default_prefix('win64') was called by the job
    regeditDone,        \* set_regedit_keys() was called
    configWritten,      \* set_bnet_config(default_config) was called
    thread,             \* installer thread: "none" | "running" | "exited"
    stopCmdSet,         \* thread.set_stop_command(on_bnet_installed) was called
    timer,              \* GLib timeout of beat: "none" | "active" | "cancelled"
    tickLog,            \* one record per run of beat
    ticksActive,        \* runs of beat in progress
    finalizeCount,      \* invocations of on_bnet_installed
    finShutdowns,       \* self.shutdown() calls made by on_bnet_installed
    callbackCount,      \* invocations of the caller's callback
    stopCmds,           \* invocations of the thread's stop command
    installReturned,    \* install() returned to its caller
    installResult,      \* what it returned
    jobSucceeded,       \* the installer ran to completion and installed Battle.net
    raised,             \* an exception propagated out of a handler
    \* remove_game_data
    rgdState,           \* "none" | "running" | "done" | "raised"
    rgdInstalledAtCall, \* is_installed() at the call
    rgdAnswer,          \* answer to the install question: "na" | "yes" | "no"
    dialogResult,       \* what install_dialog returned
    rgdResult,          \* what remove_game_data returned
    uninstallerSpawned, \* the uninstaller thread was started
    \* Battle.net process and the shutdown operations
    bnet,               \* Battle.net.exe: "absent" | "S" | "Z"
    lastOp,             \* "none" | "prelaunch" | "stop"
    opDone,             \* the operation returned
    opGraceful,         \* self.shutdown() calls it made
    polls1,             \* is_running() polls of the first check_shutdown
    polls2,             \* is_running() polls of the second check_shutdown
    opKills,            \* kill() calls it made
    opResult,           \* what it returned
    lastPoll,           \* outcome of its last poll: "none" | "running" | "notrunning"
    killed,             \* what its kill() signalled: "none", or the state the
                        \* process was in ("absent": no pid was found)
    \* play()
    playIn,             \* configuration and disk state play() runs against
    playOut,            \* what play() returned or raised ("unset" before the call)
    playConfigWrites,   \* set_bnet_config() calls made by play()
    \* generic Runner.install
    runIn,              \* class attributes, platform and API response of the runner
    rPc,                \* position inside install / download_and_extract
    rViaDialog,         \* "na" | "yes" | "no": install_dialog and the user's answer
    rTarball,           \* the tarball install() resolved
    rArchive,           \* the archive in the cache: "absent" | "present"
    rLog,               \* what install() did, in order
    rResult,            \* what install() returned
    rDialogResult,      \* what install_dialog() returned
    \* prefix resolution, is_installed and get_run_data calls
    envIn,              \* host and disk state the queries run against
    envLog,             \* the last calls, oldest first (at most two)
    created,            \* prefix directory -> create_prefix calls made for it
    \* util/bnet.py: products_parse and read_config
    recs,               \* the records the product.db buffer was built from
    cut,                \* bytes missing at the end of the file
    buf,                \* the bytes of product.db
    fileExists,         \* product.db exists
    parseOut,           \* what products_parse returned or raised
    rcReads,            \* what the read_config calls returned, in order
    \* winebattlenet.beat(thread): supervision of a running game
    supIn,              \* runner option quit_bnet_on_play and the gameid
    children,           \* the child processes of the game thread, in order
    supTicks,           \* runs of beat(thread) so far
    supKilled,          \* the children the last run passed to kill_pid
    supRaised           \* the last run raised

mainVars == <<pc, ctx>>
fsVars == <<prefixes, users64, pdata64, bnetInstalled>>
jobVars == <<hasDownloader, hasCallback, download, ensured32, ensured64, regeditDone,
             configWritten, thread, stopCmdSet, timer, tickLog, ticksActive,
             finalizeCount, finShutdowns, callbackCount, stopCmds, installReturned,
             installResult, jobSucceeded, raised>>
rgdVars == <<rgdState, rgdInstalledAtCall, rgdAnswer, dialogResult, rgdResult,
             uninstallerSpawned>>
opVars == <<lastOp, opDone, opGraceful, polls1, polls2, opKills, opResult, lastPoll,
           killed>>
playVars == <<playIn, playOut, playConfigWrites>>
runnerVars == <<runIn, rPc, rViaDialog, rTarball, rArchive, rLog, rResult, rDialogResult>>
envVars == <<envIn, envLog, created>>
parseVars == <<recs, cut, buf, fileExists, parseOut, rcReads>>
supVars == <<supIn, children, supTicks, supKilled, supRaised>>
extVars == <<playVars, runnerVars, envVars, parseVars, supVars>>
vars == <<mainVars, fsVars, jobVars, rgdVars, bnet, opVars, extVars>>

\* ------------------------------------------------------------- helpers

\* Python truth value of a returned value.
Truthy(v) == v = "True"

\* An is_running() that takes a defunct process for a running one.
IsRunning_ZombieRuns == bnet # "absent"

\* is_running(): a Battle.net.exe pid is found and the process is not defunct.
IsRunning == IF bnet # "absent" THEN bnet # "Z" ELSE FALSE

\* winebattlenet.is_installed, for a host where wine itself is installed: the
\* launcher is found, the default prefix exists and the launcher path exists.
IsInstalled == IF ~bnetInstalled \/ prefixes["prefix"] = "absent" THEN FALSE ELSE bnetInstalled

\* get_default_prefix(arch): the last component of the prefix path.
GetDefaultPrefix(arch) ==
    LET a == IF arch = None THEN default_arch ELSE arch
    IN  IF a = "win64" THEN "prefix64" ELSE "prefix"

\* create_prefix(prefix_dir, arch): the prefix exists afterwards, made for arch.
CreatePrefix(fs, prefix_dir, arch) ==
    LET a == IF arch = None THEN default_arch ELSE arch
    IN  [fs EXCEPT ![prefix_dir] = a]

PrefixMissing_Always(fs, prefix) == TRUE

\* get_or_create_default_prefix: not os.path.exists(prefix)
PrefixMissing(fs, prefix) == fs[prefix] = "absent"

\* get_or_create_default_prefix(arch): the filesystem after the call.
GetOrCreateDefaultPrefix(fs, arch) ==
    LET a == IF arch = None THEN default_arch ELSE arch
        prefix == GetDefaultPrefix(a)
    IN  IF PrefixMissing(fs, prefix) THEN CreatePrefix(fs, prefix, a) ELSE fs

ResetOp(op) ==
    /\ lastOp' = op
    /\ opDone' = FALSE
    /\ opGraceful' = 0
    /\ polls1' = 0
    /\ polls2' = 0
    /\ opKills' = 0
    /\ opResult' = "unset"
    /\ lastPoll' = "none"
    /\ killed' = "none"

\* ------------------------------------------------------------- Init

\* No play() call is modelled.
PlayIdle ==
    /\ playIn = "none"
    /\ playOut = "unset"
    /\ playConfigWrites = 0

\* No generic runner is modelled.
RunnerIdle ==
    /\ runIn = "none"
    /\ rPc = "idle"
    /\ rViaDialog = "na"
    /\ rTarball = "unset"
    /\ rArchive = "absent"
    /\ rLog = <<>>
    /\ rResult = "unset"
    /\ rDialogResult = "unset"

\* No prefix query is modelled.
EnvIdle ==
    /\ envIn = "none"
    /\ envLog = <<>>
    /\ created = "none"

\* No running game is modelled.
SupIdle ==
    /\ supIn = "none"
    /\ children = <<>>
    /\ supTicks = 0
    /\ supKilled = {}
    /\ supRaised = FALSE

\* No product.db is modelled.
ParseIdle ==
    /\ recs = <<>>
    /\ cut = 0
    /\ buf = <<>>
    /\ fileExists = FALSE
    /\ parseOut = [done |-> FALSE, raised |-> "", products |-> <<>>]
    /\ rcReads = <<>>

\* The prefixes on disk when the application starts.
FsInit ==
    /\ prefixes \in [{"prefix", "prefix64"} -> {"absent", "win32", "win64"}]
    /\ prefixes["prefix"] \in {"absent", "win32"}
    /\ prefixes["prefix64"] \in {"absent", "win64"}
    /\ users64 \in {"absent", "dir", "link"}
    /\ pdata64 \in {"absent", "dir", "link"}
    /\ prefixes["prefix64"] = "absent" => users64 = "absent" /\ pdata64 = "absent"
    /\ bnetInstalled \in BOOLEAN
    /\ bnetInstalled => prefixes["prefix"] # "absent"

\* No install job, no remove_game_data, no shutdown operation yet.
VendorIdle ==
    /\ pc = "loop"
    /\ ctx = "none"
    /\ hasDownloader = FALSE
    /\ hasCallback = FALSE
    /\ download = "none"
    /\ ensured32 = FALSE
    /\ ensured64 = FALSE
    /\ regeditDone = FALSE
    /\ configWritten = FALSE
    /\ thread = "none"
    /\ stopCmdSet = FALSE
    /\ timer = "none"
    /\ tickLog = <<>>
    /\ ticksActive = 0
    /\ finalizeCount = 0
    /\ finShutdowns = 0
    /\ callbackCount = 0
    /\ stopCmds = 0
    /\ installReturned = FALSE
    /\ installResult = "unset"
    /\ jobSucceeded = FALSE
    /\ raised = FALSE
    /\ rgdState = "none"
    /\ rgdInstalledAtCall = FALSE
    /\ rgdAnswer = "na"
    /\ dialogResult = "unset"
    /\ rgdResult = "unset"
    /\ uninstallerSpawned = FALSE
    /\ bnet = "absent"
    /\ lastOp = "none"
    /\ opDone = FALSE
    /\ opGraceful = 0
    /\ polls1 = 0
    /\ polls2 = 0
    /\ opKills = 0
    /\ opResult = "unset"
    /\ lastPoll = "none"
    /\ killed = "none"

Init == FsInit /\ VendorIdle /\ PlayIdle /\ RunnerIdle /\ EnvIdle /\ ParseIdle /\ SupIdle

\* ------------------------------------------- winebattlenet.install: the job

\* install(version, downloader, callback), called by the application.  With a
\* downloader override the download is handed over and install() returns at once
\* (it has no return statement); otherwise the download dialog runs.
Install(d, c) ==
    /\ pc = "loop"
    /\ download = "none"
    /\ hasDownloader' = d
    /\ hasCallback' = c
    /\ download' = "running"
    /\ IF d
       THEN /\ installReturned' = TRUE
            /\ installResult' = None
            /\ UNCHANGED mainVars
       ELSE /\ pc' = "dl_dialog"
            /\ ctx' = "install"
            /\ UNCHANGED <<installReturned, installResult>>
    /\ UNCHANGED <<fsVars, ensured32, ensured64, regeditDone, configWritten, thread,
                   stopCmdSet, timer, tickLog, ticksActive, finalizeCount, finShutdowns,
                   callbackCount, stopCmds, jobSucceeded, raised, rgdVars, bnet, opVars>>
    /\ UNCHANGED extVars

\* dialog.run() returns, the file fetched or not; on_bnet_downloaded() is then
\* called whatever the outcome.
DialogDownloadDone(ok) ==
    /\ pc = "dl_dialog"
    /\ download = "running"
    /\ download' = IF ok THEN "ok" ELSE "failed"
    /\ pc' = "ensure32"
    /\ UNCHANGED <<ctx, fsVars, hasDownloader, hasCallback, ensured32, ensured64,
                   regeditDone, configWritten, thread, stopCmdSet, timer, tickLog,
                   ticksActive, finalizeCount, finShutdowns, callbackCount, stopCmds,
                   installReturned, installResult, jobSucceeded, raised, rgdVars, bnet,
                   opVars>>
    /\ UNCHANGED extVars

\* The downloader override finishes.  It calls on_bnet_downloaded when the file
\* was fetched; after a failure it is the override's choice (calls).
DownloaderDone(ok, calls) ==
    /\ pc = "loop"
    /\ hasDownloader
    /\ download = "running"
    /\ download' = IF ok THEN "ok" ELSE "failed"
    /\ IF ok \/ calls
       THEN pc' = "ensure32" /\ ctx' = "downloaded"
       ELSE UNCHANGED mainVars
    /\ UNCHANGED <<fsVars, hasDownloader, hasCallback, ensured32, ensured64,
                   regeditDone, configWritten, thread, stopCmdSet, timer, tickLog,
                   ticksActive, finalizeCount, finShutdowns, callbackCount, stopCmds,
                   installReturned, installResult, jobSucceeded, raised, rgdVars, bnet,
                   opVars>>
    /\ UNCHANGED extVars

\* An exception leaves the handler the main thread is running.
Raise ==
    /\ pc' = "loop"
    /\ ctx' = "none"
    /\ raised' = TRUE
    /\ rgdState' = IF ctx = "rgd" THEN "raised" ELSE rgdState

\* prefix = self.get_or_create_default_prefix()
EnsurePrefix32 ==
    /\ pc = "ensure32"
    /\ prefixes' = GetOrCreateDefaultPrefix(prefixes, None)
    /\ ensured32' = TRUE
    /\ pc' = "ensure64"
    /\ UNCHANGED <<ctx, users64, pdata64, bnetInstalled, hasDownloader, hasCallback,
                   download, ensured64, regeditDone, configWritten, thread, stopCmdSet,
                   timer, tickLog, ticksActive, finalizeCount, finShutdowns,
                   callbackCount, stopCmds, installReturned, installResult,
                   jobSucceeded, raised, rgdVars, bnet, opVars>>
    /\ UNCHANGED extVars

\* prefix64 = self.get_or_create_default_prefix('win64'), then winetricks on the
\* win32 prefix.  A prefix wine has just created holds a real drive_c/users; its
\* drive_c/ProgramData may exist or not.
EnsurePrefix64 ==
    /\ pc = "ensure64"
    /\ prefixes' = GetOrCreateDefaultPrefix(prefixes, "win64")
    /\ IF prefixes["prefix64"] = "absent"
       THEN users64' = "dir" /\ pdata64' \in {"dir", "absent"}
       ELSE UNCHANGED <<users64, pdata64>>
    /\ ensured64' = TRUE
    /\ pc' = "link_users"
    /\ UNCHANGED <<ctx, bnetInstalled, hasDownloader, hasCallback, download, ensured32,
                   regeditDone, configWritten, thread, stopCmdSet, timer, tickLog,
                   ticksActive, finalizeCount, finShutdowns, callbackCount, stopCmds,
                   installReturned, installResult, jobSucceeded, raised, rgdVars, bnet,
                   opVars>>
    /\ UNCHANGED extVars

\* if not islink(prefix64/drive_c/users): rmtree it, symlink it to the win32 one.
\* rmtree of a path that does not exist raises.
LinkUsers ==
    /\ pc = "link_users"
    /\ IF users64 = "link"
       THEN pc' = "link_pdata" /\ UNCHANGED <<ctx, users64, raised, rgdState>>
       ELSE IF users64 = "absent"
            THEN Raise /\ UNCHANGED users64
            ELSE users64' = "link" /\ pc' = "link_pdata" /\ UNCHANGED <<ctx, raised, rgdState>>
    /\ UNCHANGED <<prefixes, pdata64, bnetInstalled, hasDownloader, hasCallback, download,
                   ensured32, ensured64, regeditDone, configWritten, thread, stopCmdSet,
                   timer, tickLog, ticksActive, finalizeCount, finShutdowns,
                   callbackCount, stopCmds, installReturned, installResult,
                   jobSucceeded, rgdInstalledAtCall, rgdAnswer, dialogResult, rgdResult,
                   uninstallerSpawned, bnet, opVars>>
    /\ UNCHANGED extVars

\* The same for drive_c/ProgramData, then winetricks on the win64 prefix.
LinkProgramData ==
    /\ pc = "link_pdata"
    /\ IF pdata64 = "link"
       THEN pc' = "regedit" /\ UNCHANGED <<ctx, pdata64, raised, rgdState>>
       ELSE IF pdata64 = "absent"
            THEN Raise /\ UNCHANGED pdata64
            ELSE pdata64' = "link" /\ pc' = "regedit" /\ UNCHANGED <<ctx, raised, rgdState>>
    /\ UNCHANGED <<prefixes, users64, bnetInstalled, hasDownloader, hasCallback, download,
                   ensured32, ensured64, regeditDone, configWritten, thread, stopCmdSet,
                   timer, tickLog, ticksActive, finalizeCount, finShutdowns,
                   callbackCount, stopCmds, installReturned, installResult,
                   jobSucceeded, rgdInstalledAtCall, rgdAnswer, dialogResult, rgdResult,
                   uninstallerSpawned, bnet, opVars>>
    /\ UNCHANGED extVars

\* An on_bnet_downloaded that spawns the installer right after the registry
\* edits, before the default config document is written.
SetRegeditKeys_ThenSpawn ==
    /\ pc = "regedit"
    /\ regeditDone' = TRUE
    /\ pc' = "spawn"
    /\ UNCHANGED <<ctx, fsVars, hasDownloader, hasCallback, download, ensured32,
                   ensured64, configWritten, thread, stopCmdSet, timer, tickLog,
                   ticksActive, finalizeCount, finShutdowns, callbackCount, stopCmds,
                   installReturned, installResult, jobSucceeded, raised, rgdVars, bnet,
                   opVars>>
    /\ UNCHANGED extVars

\* self.set_regedit_keys()
SetRegeditKeys ==
    /\ pc = "regedit"
    /\ regeditDone' = TRUE
    /\ pc' = "config"
    /\ UNCHANGED <<ctx, fsVars, hasDownloader, hasCallback, download, ensured32,
                   ensured64, configWritten, thread, stopCmdSet, timer, tickLog,
                   ticksActive, finalizeCount, finShutdowns, callbackCount, stopCmds,
                   installReturned, installResult, jobSucceeded, raised, rgdVars, bnet,
                   opVars>>
    /\ UNCHANGED extVars

\* self.set_bnet_config(default_config): ensures the default prefix and writes
\* the config document.
SetDefaultConfig ==
    /\ pc = "config"
    /\ prefixes' = GetOrCreateDefaultPrefix(prefixes, None)
    /\ configWritten' = TRUE
    /\ pc' = "spawn"
    /\ UNCHANGED <<ctx, users64, pdata64, bnetInstalled, hasDownloader, hasCallback,
                   download, ensured32, ensured64, regeditDone, thread, stopCmdSet,
                   timer, tickLog, ticksActive, finalizeCount, finShutdowns,
                   callbackCount, stopCmds, installReturned, installResult,
                   jobSucceeded, raised, rgdVars, bnet, opVars>>
    /\ UNCHANGED extVars

\* thread = wineexec(installer_path, ..., blocking=False)
SpawnInstaller ==
    /\ pc = "spawn"
    /\ thread' = "running"
    /\ pc' = "setstop"
    /\ UNCHANGED <<ctx, fsVars, hasDownloader, hasCallback, download, ensured32,
                   ensured64, regeditDone, configWritten, stopCmdSet, timer, tickLog,
                   ticksActive, finalizeCount, finShutdowns, callbackCount, stopCmds,
                   installReturned, installResult, jobSucceeded, raised, rgdVars, bnet,
                   opVars>>
    /\ UNCHANGED extVars

\* thread.set_stop_command(on_bnet_installed)
SetStopCommand ==
    /\ pc = "setstop"
    /\ stopCmdSet' = TRUE
    /\ pc' = "addtimer"
    /\ UNCHANGED <<ctx, fsVars, hasDownloader, hasCallback, download, ensured32,
                   ensured64, regeditDone, configWritten, thread, timer, tickLog,
                   ticksActive, finalizeCount, finShutdowns, callbackCount, stopCmds,
                   installReturned, installResult, jobSucceeded, raised, rgdVars, bnet,
                   opVars>>
    /\ UNCHANGED extVars

\* GLib.timeout_add(HEARTBEAT_DELAY, beat); on_bnet_downloaded returns, to
\* install() when install() called it and to the downloader otherwise.
RegisterHeartbeat ==
    /\ pc = "addtimer"
    /\ timer' = "active"
    /\ IF ctx = "downloaded"
       THEN pc' = "loop" /\ ctx' = "none"
       ELSE pc' = "install_ret" /\ UNCHANGED ctx
    /\ UNCHANGED <<fsVars, hasDownloader, hasCallback, download, ensured32, ensured64,
                   regeditDone, configWritten, thread, stopCmdSet, tickLog, ticksActive,
                   finalizeCount, finShutdowns, callbackCount, stopCmds,
                   installReturned, installResult, jobSucceeded, raised, rgdVars, bnet,
                   opVars>>
    /\ UNCHANGED extVars

\* What install() returns: it ends without a return statement.
InstallReturnValue == None

\* install() returns to its caller: the application, or install_dialog, which
\* returns the same value to remove_game_data.
InstallReturn ==
    /\ pc = "install_ret"
    /\ installReturned' = TRUE
    /\ installResult' = InstallReturnValue
    /\ IF ctx = "rgd"
       THEN /\ dialogResult' = InstallReturnValue
            /\ pc' = "rgd_check"
            /\ UNCHANGED ctx
       ELSE /\ pc' = "loop"
            /\ ctx' = "none"
            /\ UNCHANGED dialogResult
    /\ UNCHANGED <<fsVars, hasDownloader, hasCallback, download, ensured32, ensured64,
                   regeditDone, configWritten, thread, stopCmdSet, timer, tickLog,
                   ticksActive, finalizeCount, finShutdowns, callbackCount, stopCmds,
                   jobSucceeded, raised, rgdState, rgdInstalledAtCall, rgdAnswer,
                   rgdResult, uninstallerSpawned, bnet, opVars>>
    /\ UNCHANGED extVars

\* The installer process ends on its own.  It can have installed Battle.net
\* only if the installer file had been fetched.
InstallerExit(success) ==
    /\ thread = "running"
    /\ thread' = "exited"
    /\ jobSucceeded' = (success /\ download = "ok")
    /\ bnetInstalled' = (bnetInstalled \/ (success /\ download = "ok"))
    /\ UNCHANGED <<mainVars, prefixes, users64, pdata64, hasDownloader, hasCallback,
                   download, ensured32, ensured64, regeditDone, configWritten,
                   stopCmdSet, timer, tickLog, ticksActive, finalizeCount, finShutdowns,
                   callbackCount, stopCmds, installReturned, installResult, raised,
                   rgdVars, bnet, opVars>>
    /\ UNCHANGED extVars

\* ------------------------------------------------ heartbeat and finalization

\* A beat that finalizes but always returns True, so the timeout stays scheduled.
BeatDecision_NeverCancels(isRunning) ==
    [finalize |-> ~isRunning, ret |-> TRUE]

\* beat(): what one run decides from thread.is_running: whether it calls
\* on_bnet_installed, and its return value (True keeps the timeout scheduled).
BeatDecision(isRunning) ==
    IF ~isRunning
    THEN [finalize |-> TRUE, ret |-> FALSE]
    ELSE [finalize |-> FALSE, ret |-> TRUE]

\* The GLib timeout dispatches beat: only from the main loop, and only while the
\* source has not been removed by a False return.
Beat ==
    /\ pc = "loop"
    /\ timer = "active"
    /\ Len(tickLog) < MaxTicks
    /\ LET d == BeatDecision(thread = "running")
       IN  IF d.finalize
           THEN /\ tickLog' = Append(tickLog, [running |-> thread = "running",
                                               finalized |-> TRUE, ret |-> "pending"])
                /\ ticksActive' = ticksActive + 1
                /\ finalizeCount' = finalizeCount + 1
                /\ pc' = "fin_shutdown"
                /\ ctx' = "beat"
                /\ UNCHANGED timer
           ELSE /\ tickLog' = Append(tickLog, [running |-> thread = "running",
                                               finalized |-> FALSE,
                                               ret |-> IF d.ret THEN "True" ELSE "False"])
                /\ timer' = IF d.ret THEN "active" ELSE "cancelled"
                /\ UNCHANGED <<mainVars, ticksActive, finalizeCount>>
    /\ UNCHANGED <<fsVars, hasDownloader, hasCallback, download, ensured32, ensured64,
                   regeditDone, configWritten, thread, stopCmdSet, finShutdowns,
                   callbackCount, stopCmds, installReturned, installResult,
                   jobSucceeded, raised, rgdVars, bnet, opVars>>
    /\ UNCHANGED extVars

\* The installer thread's stop command is invoked (LutrisThread.stop): it is the
\* on_bnet_installed registered with set_stop_command.
ThreadStop ==
    /\ pc = "loop"
    /\ stopCmdSet
    /\ stopCmds < MaxStops
    /\ stopCmds' = stopCmds + 1
    /\ finalizeCount' = finalizeCount + 1
    /\ pc' = "fin_shutdown"
    /\ ctx' = "threadstop"
    /\ UNCHANGED <<fsVars, hasDownloader, hasCallback, download, ensured32, ensured64,
                   regeditDone, configWritten, thread, stopCmdSet, timer, tickLog,
                   ticksActive, finShutdowns, callbackCount, installReturned,
                   installResult, jobSucceeded, raised, rgdVars, bnet, opVars>>
    /\ UNCHANGED extVars

\* An on_bnet_installed that goes to the callback without the shutdown.
FinShutdown_Skipped ==
    /\ pc = "fin_shutdown"
    /\ pc' = "fin_callback"
    /\ UNCHANGED <<ctx, fsVars, hasDownloader, hasCallback, download, ensured32,
                   ensured64, regeditDone, configWritten, thread, stopCmdSet, timer,
                   tickLog, ticksActive, finalizeCount, finShutdowns, callbackCount,
                   stopCmds, installReturned, installResult, jobSucceeded, raised,
                   rgdVars, bnet, opVars>>
    /\ UNCHANGED extVars

\* on_bnet_installed: self.shutdown()
FinShutdown ==
    /\ pc = "fin_shutdown"
    /\ finShutdowns' = finShutdowns + 1
    /\ pc' = "fin_callback"
    /\ UNCHANGED <<ctx, fsVars, hasDownloader, hasCallback, download, ensured32,
                   ensured64, regeditDone, configWritten, thread, stopCmdSet, timer,
                   tickLog, ticksActive, finalizeCount, callbackCount, stopCmds,
                   installReturned, installResult, jobSucceeded, raised, rgdVars, bnet,
                   opVars>>
    /\ UNCHANGED extVars

\* on_bnet_installed: if callback: callback(); then it returns, to beat (which
\* returns False, so that GLib removes the timeout) or to the thread's stop.
FinCallback ==
    /\ pc = "fin_callback"
    /\ callbackCount' = IF hasCallback THEN callbackCount + 1 ELSE callbackCount
    /\ IF ctx = "beat"
       THEN LET d == BeatDecision(tickLog[Len(tickLog)].running)
            IN  /\ tickLog' = [tickLog EXCEPT ![Len(tickLog)].ret =
                                   IF d.ret THEN "True" ELSE "False"]
                /\ timer' = IF d.ret THEN "active" ELSE "cancelled"
                /\ ticksActive' = ticksActive - 1
       ELSE UNCHANGED <<tickLog, timer, ticksActive>>
    /\ pc' = "loop"
    /\ ctx' = "none"
    /\ UNCHANGED <<fsVars, hasDownloader, hasCallback, download, ensured32, ensured64,
                   regeditDone, configWritten, thread, stopCmdSet, finalizeCount,
                   finShutdowns, stopCmds, installReturned, installResult, jobSucceeded,
                   raised, rgdVars, bnet, opVars>>
    /\ UNCHANGED extVars

\* An exception leaves on_bnet_installed.  Neither it nor beat has an except
\* clause, so from a heartbeat run it leaves beat before its return False and
\* reaches the GLib dispatcher, which either drops the timeout or keeps it; from
\* the stop command it reaches the caller of the thread's stop.
FinalizeRaises(keep) ==
    /\ IF ctx = "beat"
       THEN /\ tickLog' = [tickLog EXCEPT ![Len(tickLog)].ret = "raised"]
            /\ timer' = IF keep THEN "active" ELSE "cancelled"
            /\ ticksActive' = ticksActive - 1
       ELSE UNCHANGED <<tickLog, timer, ticksActive>>
    /\ Raise
    /\ UNCHANGED <<fsVars, hasDownloader, hasCallback, download, ensured32, ensured64,
                   regeditDone, configWritten, thread, stopCmdSet, finalizeCount,
                   finShutdowns, stopCmds, installReturned, installResult, jobSucceeded,
                   rgdInstalledAtCall, rgdAnswer, dialogResult, rgdResult,
                   uninstallerSpawned, bnet, opVars>>
    /\ UNCHANGED extVars

\* on_bnet_installed: self.shutdown() raises; the callback is not reached.
FinShutdownRaises(keep) ==
    /\ pc = "fin_shutdown"
    /\ FinalizeRaises(keep)
    /\ UNCHANGED callbackCount

\* on_bnet_installed: the callback is called and raises.
FinCallbackRaises(keep) ==
    /\ pc = "fin_callback"
    /\ hasCallback
    /\ callbackCount' = callbackCount + 1
    /\ FinalizeRaises(keep)

\* What the job records of a failed finalization: beat and on_bnet_installed
\* catch nothing, log nothing and set no state.
FailureRecorded == FALSE

\* ------------------------------------------------- prelaunch, stop, shutdown

\* check_shutdown with a loop that ends one iteration early (range(1, times)).
CheckShutdownStep_OneShort(x, times, running) ==
    IF ~running THEN "True"
    ELSE IF x >= times - 1 THEN None ELSE "continue"

\* check_shutdown(is_running, times), iteration x (after the sleep): "True" when
\* the process is seen not running, "None" when the loop ends without that, and
\* "continue" to go on polling.
CheckShutdownStep(x, times, running) ==
    IF ~running THEN "True"
    ELSE IF x >= times THEN None ELSE "continue"

\* prelaunch() returns: to the application, or to remove_game_data.
PrelaunchReturn(result) ==
    /\ opResult' = result
    /\ opDone' = TRUE
    /\ IF ctx = "rgd"
       THEN pc' = "rgd_spawn" /\ UNCHANGED ctx
       ELSE pc' = "loop" /\ ctx' = "none"

\* prelaunch(), called by the application before a launch.
Prelaunch ==
    /\ pc = "loop"
    /\ pc' = "pl_check"
    /\ ctx' = "prelaunch"
    /\ ResetOp("prelaunch")
    /\ UNCHANGED <<fsVars, jobVars, rgdVars, bnet>>
    /\ UNCHANGED extVars

\* A prelaunch() that sends the graceful stop and waits without asking whether
\* the process runs.
PrelaunchCheck_AlwaysShutdown ==
    /\ pc = "pl_check"
    /\ opGraceful' = opGraceful + 1
    /\ pc' = "pl_tier1"
    /\ UNCHANGED <<ctx, opResult, opDone>>
    /\ UNCHANGED <<fsVars, jobVars, rgdVars, bnet, lastOp, polls1, polls2, opKills,
                   lastPoll, killed>>
    /\ UNCHANGED extVars

\* if is_running(): self.shutdown(), then the first check_shutdown; else True.
PrelaunchCheck ==
    /\ pc = "pl_check"
    /\ IF IsRunning
       THEN /\ opGraceful' = opGraceful + 1
            /\ pc' = "pl_tier1"
            /\ UNCHANGED <<ctx, opResult, opDone>>
       ELSE /\ PrelaunchReturn("True")
            /\ UNCHANGED opGraceful
    /\ UNCHANGED <<fsVars, jobVars, rgdVars, bnet, lastOp, polls1, polls2, opKills,
                   lastPoll, killed>>
    /\ UNCHANGED extVars

\* One iteration of check_shutdown(is_running): sleep, then poll.
Tier1Poll ==
    /\ pc = "pl_tier1"
    /\ polls1' = polls1 + 1
    /\ lastPoll' = IF IsRunning THEN "running" ELSE "notrunning"
    /\ LET r == CheckShutdownStep(polls1 + 1, TIER1_POLLS, IsRunning)
       IN  IF r = "True" THEN PrelaunchReturn("True")
           ELSE IF r = None THEN pc' = "pl_kill" /\ UNCHANGED <<ctx, opResult, opDone>>
           ELSE UNCHANGED <<mainVars, opResult, opDone>>
    /\ UNCHANGED <<fsVars, jobVars, rgdVars, bnet, lastOp, opGraceful, polls2, opKills,
                   killed>>
    /\ UNCHANGED extVars

\* kill(): kill_pid(get_pid('Battle.net.exe$')), with no look at the state of
\* the process.
PrelaunchKill ==
    /\ pc = "pl_kill"
    /\ opKills' = opKills + 1
    /\ killed' = bnet
    /\ pc' = "pl_tier2"
    /\ UNCHANGED <<ctx, fsVars, jobVars, rgdVars, bnet, lastOp, opDone, opGraceful,
                   polls1, polls2, opResult, lastPoll>>
    /\ UNCHANGED extVars

\* One iteration of check_shutdown(is_running, 5); prelaunch returns False when
\* it ends without having seen the process not running.
Tier2Poll ==
    /\ pc = "pl_tier2"
    /\ polls2' = polls2 + 1
    /\ lastPoll' = IF IsRunning THEN "running" ELSE "notrunning"
    /\ LET r == CheckShutdownStep(polls2 + 1, TIER2_POLLS, IsRunning)
       IN  IF r = "True" THEN PrelaunchReturn("True")
           ELSE IF r = None THEN PrelaunchReturn("False")
           ELSE UNCHANGED <<mainVars, opResult, opDone>>
    /\ UNCHANGED <<fsVars, jobVars, rgdVars, bnet, lastOp, opGraceful, polls1, opKills,
                   killed>>
    /\ UNCHANGED extVars

\* A stop() that also force-kills after the graceful stop.
Stop_AlsoKills ==
    /\ pc = "loop"
    /\ lastOp' = "stop"
    /\ opGraceful' = 1
    /\ polls1' = 0
    /\ polls2' = 0
    /\ opKills' = 1
    /\ lastPoll' = "none"
    /\ killed' = bnet
    /\ opResult' = None
    /\ opDone' = TRUE
    /\ UNCHANGED <<mainVars, fsVars, jobVars, rgdVars, bnet>>
    /\ UNCHANGED extVars

\* stop(): self.shutdown(), which calls the wine runner's stop; nothing is
\* returned.
Stop ==
    /\ pc = "loop"
    /\ lastOp' = "stop"
    /\ opGraceful' = 1
    /\ polls1' = 0
    /\ polls2' = 0
    /\ opKills' = 0
    /\ lastPoll' = "none"
    /\ killed' = "none"
    /\ opResult' = None
    /\ opDone' = TRUE
    /\ UNCHANGED <<mainVars, fsVars, jobVars, rgdVars, bnet>>
    /\ UNCHANGED extVars

\* The Battle.net process starts, becomes defunct or disappears on its own.
BnetChange(s) ==
    /\ s # bnet
    /\ bnet' = s
    /\ UNCHANGED <<mainVars, fsVars, jobVars, rgdVars, opVars>>
    /\ UNCHANGED extVars

\* ------------------------------------------------------- remove_game_data

\* remove_game_data(gameid): if not self.is_installed(): install_dialog().
RemoveGameData ==
    /\ pc = "loop"
    /\ IsInstalled \/ download = "none"
    /\ rgdState' = "running"
    /\ rgdInstalledAtCall' = IsInstalled
    /\ rgdAnswer' = "na"
    /\ dialogResult' = "unset"
    /\ rgdResult' = "unset"
    /\ uninstallerSpawned' = FALSE
    /\ ctx' = "rgd"
    /\ IF IsInstalled
       THEN pc' = "pl_check" /\ ResetOp("prelaunch")
       ELSE pc' = "rgd_dialog" /\ UNCHANGED opVars
    /\ UNCHANGED <<fsVars, jobVars, bnet>>
    /\ UNCHANGED extVars

\* install_dialog(): on YES return self.install(), else return False.
InstallDialogAnswer(yes) ==
    /\ pc = "rgd_dialog"
    /\ rgdAnswer' = IF yes THEN "yes" ELSE "no"
    /\ IF yes
       THEN /\ hasDownloader' = FALSE
            /\ hasCallback' = FALSE
            /\ download' = "running"
            /\ pc' = "dl_dialog"
            /\ UNCHANGED dialogResult
       ELSE /\ dialogResult' = "False"
            /\ pc' = "rgd_check"
            /\ UNCHANGED <<hasDownloader, hasCallback, download>>
    /\ UNCHANGED <<ctx, fsVars, ensured32, ensured64, regeditDone, configWritten, thread,
                   stopCmdSet, timer, tickLog, ticksActive, finalizeCount, finShutdowns,
                   callbackCount, stopCmds, installReturned, installResult,
                   jobSucceeded, raised, rgdState, rgdInstalledAtCall, rgdResult,
                   uninstallerSpawned, bnet, opVars>>
    /\ UNCHANGED extVars

\* if not installed: return False; otherwise go on to prelaunch().
RgdCheck ==
    /\ pc = "rgd_check"
    /\ IF ~Truthy(dialogResult)
       THEN /\ rgdResult' = "False"
            /\ rgdState' = "done"
            /\ pc' = "loop"
            /\ ctx' = "none"
            /\ UNCHANGED opVars
       ELSE /\ pc' = "pl_check"
            /\ ResetOp("prelaunch")
            /\ UNCHANGED <<ctx, rgdResult, rgdState>>
    /\ UNCHANGED <<fsVars, jobVars, rgdInstalledAtCall, rgdAnswer, dialogResult,
                   uninstallerSpawned, bnet>>
    /\ UNCHANGED extVars

\* self.prelaunch() has returned (its result is not used): the uninstaller
\* thread is created and started; remove_game_data ends without a return value.
RgdSpawn ==
    /\ pc = "rgd_spawn"
    /\ uninstallerSpawned' = TRUE
    /\ rgdState' = "done"
    /\ rgdResult' = None
    /\ pc' = "loop"
    /\ ctx' = "none"
    /\ UNCHANGED <<fsVars, jobVars, rgdInstalledAtCall, rgdAnswer, dialogResult, bnet,
                   opVars>>
    /\ UNCHANGED extVars

\* ------------------------------------------------------------ specification

Next ==
    \/ \E d \in BOOLEAN, c \in BOOLEAN : Install(d, c)
    \/ \E ok \in BOOLEAN : DialogDownloadDone(ok)
    \/ \E ok \in BOOLEAN, calls \in BOOLEAN : DownloaderDone(ok, calls)
    \/ EnsurePrefix32
    \/ EnsurePrefix64
    \/ LinkUsers
    \/ LinkProgramData
    \/ SetRegeditKeys
    \/ SetDefaultConfig
    \/ SpawnInstaller
    \/ SetStopCommand
    \/ RegisterHeartbeat
    \/ InstallReturn
    \/ \E success \in BOOLEAN : InstallerExit(success)
    \/ Beat
    \/ ThreadStop
    \/ FinShutdown
    \/ FinCallback
    \/ Prelaunch
    \/ PrelaunchCheck
    \/ Tier1Poll
    \/ PrelaunchKill
    \/ Tier2Poll
    \/ Stop
    \/ \E s \in {"absent", "S", "Z"} : BnetChange(s)
    \/ RemoveGameData
    \/ \E yes \in BOOLEAN : InstallDialogAnswer(yes)
    \/ RgdCheck
    \/ RgdSpawn

Spec == Init /\ [][Next]_vars

\* The same program with a wine stop or a completion callback that can raise.
NextFail ==
    \/ Next
    \/ \E keep \in BOOLEAN : FinShutdownRaises(keep)
    \/ \E keep \in BOOLEAN : FinCallbackRaises(keep)

SpecFail == Init /\ [][NextFail]_vars

\* ----------------------------------------------------- winebattlenet.play

\* Keys of the module's gamelist.
Gamelist == {"prometheus", "prometheus_test"}

\* The configurations and disk states play() is run against: the runner option
\* run_without_bnet, the game options gameid ('' when unset), arch and args, the
\* hand-set autolaunch option, whether product.db exists and the gameids
\* products_parse finds in it, and whether the directory the entry names and the
\* game executable in it exist.
PlayInputs ==
    {i \in [run_without_bnet : BOOLEAN,
            gameid : {"", "prometheus", "wow"},
            arch : {None, "auto", "win32", "win64"},
            game_args : BOOLEAN,
            autolaunch : BOOLEAN,
            dbExists : BOOLEAN,
            dbKeys : SUBSET {"battle.net", "prometheus", "wow"},
            dirExists : BOOLEAN,
            exeExists : BOOLEAN] :
        /\ i.exeExists => i.dirExists
        /\ ~i.dbExists => i.dbKeys = {}}

\* read_config(product_db_path): nothing when the file does not exist or the
\* parsed products have no 'battle.net' entry, else the products.
ReadConfig(in) ==
    IF ~in.dbExists THEN [none |-> TRUE, keys |-> {}]
    ELSE IF "battle.net" \notin in.dbKeys THEN [none |-> TRUE, keys |-> {}]
    ELSE [none |-> FALSE, keys |-> in.dbKeys]

\* get_bnet_games(): nothing when product.db does not exist, else read_config.
GetBnetGames(in) ==
    IF ~in.dbExists THEN [none |-> TRUE, keys |-> {}] ELSE ReadConfig(in)

Returned(kind, error, file) == [kind |-> kind, error |-> error, file |-> file]

\* play(), run_without_bnet is True: config[self.gameid]['path'] on what
\* get_bnet_games returned, then the checks of the directory and the executable.
PlayWithoutBnet(in) ==
    LET config == GetBnetGames(in)
    IN  IF config.none THEN Returned("raise", "TypeError", "")
        ELSE IF in.gameid \notin config.keys THEN Returned("raise", "KeyError", "")
        ELSE IF ~in.dirExists THEN Returned("error", "DIR_NOT_FOUND", "game_dir")
        ELSE IF in.gameid \notin Gamelist THEN Returned("raise", "KeyError", "")
        ELSE IF ~in.exeExists THEN Returned("error", "FILE_NOT_FOUND", "game_path")
        ELSE Returned("launch", "", "game_path")

\* play(), through Battle.net: the command is launch_args plus the autolaunch
\* argument, the battlenet:// url of the game, or the game's arguments.
PlayThroughBnet(in) ==
    IF in.autolaunch THEN Returned("launch", "", "bnet")
    ELSE IF ~in.game_args
         THEN IF in.gameid \notin Gamelist THEN Returned("raise", "KeyError", "")
              ELSE Returned("launch", "", "bnet")
         ELSE Returned("launch", "", "bnet")

\* Whether play() got as far as self.prefix_path (the winepath call).
PlayReadsPrefixPath(in) ==
    LET config == GetBnetGames(in)
    IN  ~config.none /\ in.gameid \in config.keys

\* play()
Play ==
    /\ playOut.kind = "unset"
    /\ IF playIn.run_without_bnet
       THEN /\ playOut' = PlayWithoutBnet(playIn)
            /\ prefixes' = IF PlayReadsPrefixPath(playIn)
                           THEN GetOrCreateDefaultPrefix(prefixes, playIn.arch)
                           ELSE prefixes
            /\ UNCHANGED playConfigWrites
       ELSE /\ playOut' = PlayThroughBnet(playIn)
            /\ prefixes' = GetOrCreateDefaultPrefix(prefixes, None)
            /\ playConfigWrites' = playConfigWrites + 1
    /\ UNCHANGED <<mainVars, users64, pdata64, bnetInstalled, jobVars, rgdVars, bnet,
                   opVars, playIn, runnerVars, envVars, parseVars,
                   supVars>>

InitPlay ==
    /\ prefixes \in [{"prefix", "prefix64"} -> {"absent", "win32", "win64"}]
    /\ prefixes["prefix"] \in {"absent", "win32"}
    /\ prefixes["prefix64"] \in {"absent", "win64"}
    /\ users64 = IF prefixes["prefix64"] = "absent" THEN "absent" ELSE "dir"
    /\ pdata64 = users64
    /\ bnetInstalled = (prefixes["prefix"] # "absent")
    /\ VendorIdle
    /\ playIn \in PlayInputs
    /\ playOut = Returned("unset", "", "")
    /\ playConfigWrites = 0
    /\ RunnerIdle
    /\ EnvIdle
    /\ ParseIdle
    /\ SupIdle

NextPlay == Play

SpecPlay == InitPlay /\ [][NextPlay]_vars

\* ------------------------------------------------- runner.py: Runner.install

\* Versions listed by the runner API that a behaviour follows.
MaxVersions == 2

VersionRecs == [architecture : {"x86_64", "i386"}, default : BOOLEAN]

VersionSeqs == UNION {[1..n -> VersionRecs] : n \in 0..MaxVersions}

\* The runners install() is run for: the class attribute tarballs (None, or a
\* mapping whose keys are archs), what platform.machine() contains, and the
\* API's response (its json empty or not, and its versions).
RunnerInputs ==
    [tarballs : {[set |-> FALSE, archs |-> {}]}
                    \cup {[set |-> TRUE, archs |-> a] : a \in SUBSET {"x64", "i386"}},
     has64 : BOOLEAN,
     has86 : BOOLEAN,
     response : {[json |-> FALSE, versions |-> <<>>]}
                    \cup {[json |-> TRUE, versions |-> v] : v \in VersionSeqs}]

\* get_arch()
GetArch(in) == IF in.has64 THEN "x64" ELSE IF in.has86 THEN "i386" ELSE None

\* get_arch_for_api()
GetArchForApi(in) == IF in.has64 THEN "x86_64" ELSE IF in.has86 THEN "i386" ELSE None

\* get_runner_url(): "url" for the url of a version, "dict" for a version
\* record (default_version[0]), None when the function ends without a return.
GetRunnerUrl(in) ==
    IF ~in.response.json THEN None
    ELSE LET Matches(v) == v.architecture = GetArchForApi(in)
             versions == SelectSeq(in.response.versions, Matches)
             IsDefault(v) == v.default
             default_version == SelectSeq(versions, IsDefault)
         IN  IF Len(versions) = 1 THEN "url"
             ELSE IF Len(versions) > 1
                  THEN IF Len(default_version) > 0 THEN "dict" ELSE None
                  ELSE None

\* install(): the tarball it resolves, from self.tarballs when that is set and
\* not empty ("file" for an entry, None for a missing one), else from the API.
ResolveTarball(in) ==
    IF in.tarballs.set /\ in.tarballs.archs # {}
    THEN IF GetArch(in) \in in.tarballs.archs THEN "file" ELSE None
    ELSE GetRunnerUrl(in)

\* install() returns, to install_dialog when that called it.
RunnerReturn(result, via) ==
    /\ rResult' = result
    /\ rPc' = "done"
    /\ rDialogResult' = IF via = "yes" THEN result ELSE rDialogResult

\* An install() that hands a missing tarball to download_and_extract.
RunnerInstallBody_NoCheck(via) ==
    LET tarball == ResolveTarball(runIn)
    IN  /\ rTarball' = tarball
        /\ IF tarball = "dict"
           THEN /\ rLog' = rLog
                /\ RunnerReturn("raise", via)
           ELSE /\ rLog' = Append(rLog, "download")
                /\ rPc' = "r_download"
                /\ UNCHANGED <<rResult, rDialogResult>>

\* install() up to the download dialog of download_and_extract: with a tarball
\* it starts the download (os.path.basename raises on a version record), with
\* none it shows the error dialog and returns False.
RunnerInstallBody(via) ==
    LET tarball == ResolveTarball(runIn)
    IN  /\ rTarball' = tarball
        /\ IF tarball # None
           THEN IF tarball = "dict"
                THEN /\ rLog' = rLog
                     /\ RunnerReturn("raise", via)
                ELSE /\ rLog' = Append(rLog, "download")
                     /\ rPc' = "r_download"
                     /\ UNCHANGED <<rResult, rDialogResult>>
           ELSE /\ rLog' = Append(rLog, "error_dialog")
                /\ RunnerReturn("False", via)

\* install(), called by the application.
RunnerInstall ==
    /\ rPc = "idle"
    /\ rViaDialog' = "na"
    /\ RunnerInstallBody("na")
    /\ UNCHANGED <<mainVars, fsVars, jobVars, rgdVars, bnet, opVars, playVars,
                   envVars, parseVars, supVars, runIn,
                   rArchive>>

\* install_dialog(): on YES return self.install(), else return False.
RunnerInstallDialog(yes) ==
    /\ rPc = "idle"
    /\ rViaDialog' = IF yes THEN "yes" ELSE "no"
    /\ IF yes
       THEN RunnerInstallBody("yes")
       ELSE /\ rDialogResult' = "False"
            /\ rPc' = "done"
            /\ UNCHANGED <<rTarball, rLog, rResult>>
    /\ UNCHANGED <<mainVars, fsVars, jobVars, rgdVars, bnet, opVars, playVars,
                   envVars, parseVars, supVars, runIn,
                   rArchive>>

\* download_and_extract: dialog.run() returns, the archive in the cache or not.
RunnerDownloadDone(ok) ==
    /\ rPc = "r_download"
    /\ rArchive' = IF ok THEN "present" ELSE "absent"
    /\ rPc' = "r_check"
    /\ UNCHANGED <<mainVars, fsVars, jobVars, rgdVars, bnet, opVars, playVars,
                   envVars, parseVars, supVars, runIn,
                   rViaDialog, rTarball, rLog, rResult, rDialogResult>>

\* A download_and_extract that extracts without looking for the archive.
RunnerExtract_NoExistsCheck ==
    /\ rPc = "r_check"
    /\ rLog' = Append(rLog, "extract")
    /\ rPc' = "r_remove"
    /\ UNCHANGED <<rResult, rDialogResult>>
    /\ UNCHANGED <<mainVars, fsVars, jobVars, rgdVars, bnet, opVars, playVars,
                   envVars, parseVars, supVars, runIn,
                   rViaDialog, rTarball, rArchive>>

\* if not os.path.exists(runner_archive): return False; else extract_archive.
RunnerExtract ==
    /\ rPc = "r_check"
    /\ IF rArchive = "absent"
       THEN /\ RunnerReturn("False", rViaDialog)
            /\ UNCHANGED rLog
       ELSE /\ rLog' = Append(rLog, "extract")
            /\ rPc' = "r_remove"
            /\ UNCHANGED <<rResult, rDialogResult>>
    /\ UNCHANGED <<mainVars, fsVars, jobVars, rgdVars, bnet, opVars, playVars,
                   envVars, parseVars, supVars, runIn,
                   rViaDialog, rTarball, rArchive>>

\* os.remove(runner_archive); return True
RunnerRemove ==
    /\ rPc = "r_remove"
    /\ rArchive' = "absent"
    /\ rLog' = Append(rLog, "remove")
    /\ RunnerReturn("True", rViaDialog)
    /\ UNCHANGED <<mainVars, fsVars, jobVars, rgdVars, bnet, opVars, playVars,
                   envVars, parseVars, supVars, runIn,
                   rViaDialog, rTarball>>

InitRunner ==
    /\ prefixes = [d \in {"prefix", "prefix64"} |-> "absent"]
    /\ users64 = "absent"
    /\ pdata64 = "absent"
    /\ bnetInstalled = FALSE
    /\ VendorIdle
    /\ PlayIdle
    /\ EnvIdle
    /\ ParseIdle
    /\ SupIdle
    /\ runIn \in RunnerInputs
    /\ rPc = "idle"
    /\ rViaDialog = "na"
    /\ rTarball = "unset"
    /\ rArchive = "absent"
    /\ rLog = <<>>
    /\ rResult = "unset"
    /\ rDialogResult = "unset"

NextRunner ==
    \/ RunnerInstall
    \/ \E yes \in BOOLEAN : RunnerInstallDialog(yes)
    \/ \E ok \in BOOLEAN : RunnerDownloadDone(ok)
    \/ RunnerExtract
    \/ RunnerRemove

SpecRunner == InitRunner /\ [][NextRunner]_vars

\* ------------------------- winebattlenet: prefixes, is_installed, get_run_data

\* create_prefix calls for one prefix directory that a behaviour follows.
MaxCreates == 2

PrefixDirs == {"prefix", "prefix64"}

\* The hosts and disk states the queries are run against: whether wine.is_installed
\* holds, whether the launcher exists under Program Files and under Program Files
\* (x86) of the default prefix, whether user.reg exists, the registry's Open
\* command value (absent, without a quoted part, with one), what fix_path_case
\* makes of the path it names (nothing, a path that does not exist, one that
\* does), the game options prefix and arch, and what get_executable returns.
EnvInputs ==
    {i \in [wine_installed : BOOLEAN,
            exe32 : BOOLEAN,
            exe86 : BOOLEAN,
            user_reg : BOOLEAN,
            open_cmd : {"none", "unquoted", "quoted"},
            reg_path : {"nopath", "missing", "exists"},
            cfg_prefix : {None, "custom"},
            cfg_arch : {None, "auto", "win32", "win64"},
            executable : {None, "missing", "exists"}] :
        /\ i.open_cmd # "none" => i.user_reg
        /\ i.reg_path # "nopath" => i.open_cmd = "quoted"}

Outcome(exc, value) == [raised |-> exc, value |-> value]

\* get_open_command(registry): nothing for a false value, else the second of the
\* parts the value splits into at double quotes.
GetOpenCommand(in) ==
    IF in.open_cmd = "none" THEN Outcome("", None)
    ELSE IF in.open_cmd = "unquoted" THEN Outcome("IndexError", "")
    ELSE Outcome("", "open_command")

\* get_bnet_path: candidates = [self.get_default_prefix()], the prefix is only
\* resolved, the filesystem is as before.
BnetPathCandidates_Ensure(fs) ==
    [fs |-> GetOrCreateDefaultPrefix(fs, None), prefix |-> GetDefaultPrefix(None)]

BnetPathCandidates(fs) == [fs |-> fs, prefix |-> GetDefaultPrefix(None)]

\* get_bnet_path(): the launcher under Program Files, under Program Files (x86),
\* or at the path of the registry's Open command; nothing when none is found.
GetBnetPath(in, fs) ==
    IF in.exe32 THEN Outcome("", "pf")
    ELSE IF in.exe86 THEN Outcome("", "pf86")
    ELSE IF ~in.user_reg THEN Outcome("", None)
    ELSE LET bnet_path == GetOpenCommand(in)
         IN  IF bnet_path.raised # "" THEN bnet_path
             ELSE IF bnet_path.value = None THEN Outcome("", None)
             ELSE IF in.reg_path = "nopath" THEN Outcome("", None)
             ELSE Outcome("", "reg")

\* os.path.exists(bnet_path) for a path get_bnet_path returned.
BnetPathExists(in, path) == IF path = "reg" THEN in.reg_path = "exists" ELSE TRUE

\* winebattlenet.is_installed()
WineBnetIsInstalled(in, fs) ==
    IF ~in.wine_installed THEN Outcome("", "False")
    ELSE LET bnet_path == GetBnetPath(in, fs)
         IN  IF bnet_path.raised # "" THEN bnet_path
             ELSE IF bnet_path.value = None \/ fs[GetDefaultPrefix(None)] = "absent"
                  THEN Outcome("", "False")
             ELSE IF BnetPathExists(in, bnet_path.value) THEN Outcome("", "True")
             ELSE Outcome("", "False")

\* Runner.is_installed(): True when the executable exists; the method has no
\* other return statement.
RunnerIsInstalled(in) ==
    IF in.executable # None /\ in.executable = "exists"
    THEN Outcome("", "True")
    ELSE Outcome("", None)

\* wine.get_env(os_env=False): derived from the current configuration.
GetEnv(in) == <<in.cfg_prefix, in.cfg_arch>>

\* launch_args: [self.get_executable(), self.get_bnet_path()]
LaunchArgs(in, fs) ==
    LET bnet_path == GetBnetPath(in, fs)
    IN  IF bnet_path.raised # "" THEN [raised |-> bnet_path.raised, value |-> <<>>]
        ELSE [raised |-> "", value |-> <<in.executable, bnet_path.value>>]

\* create_prefix: os.makedirs of the parent directory when it does not exist.
\* The parent holds nothing but the prefixes.
CreatePrefixMakedirs(fs) == IF \A d \in PrefixDirs : fs[d] = "absent" THEN 1 ELSE 0

\* What a call did: the operation, its argument, the exception it raised (""
\* when it returned), the value it returned, the prefixes before it, and the
\* create_prefix and os.makedirs calls it made.
CallRec(op, arg, exc, value, creates, makedirs) ==
    [op |-> op, arg |-> arg, raised |-> exc, value |-> value,
     fsBefore |-> prefixes, creates |-> creates, makedirs |-> makedirs]

Logged(rec) ==
    envLog' = IF Len(envLog) < 2 THEN Append(envLog, rec) ELSE <<envLog[2], rec>>

\* The part of get_or_create_default_prefix shared by its callers.
EnsureStep(op, arch) ==
    LET a == IF arch = None THEN default_arch ELSE arch
        prefix == GetDefaultPrefix(a)
        missing == PrefixMissing(prefixes, prefix)
    IN  /\ created[prefix] < MaxCreates
        /\ prefixes' = GetOrCreateDefaultPrefix(prefixes, arch)
        /\ created' = IF missing THEN [created EXCEPT ![prefix] = @ + 1] ELSE created
        /\ Logged(CallRec(op, a, "", <<prefix>>, IF missing THEN 1 ELSE 0,
                          IF missing THEN CreatePrefixMakedirs(prefixes) ELSE 0))

EnvFrame ==
    UNCHANGED <<mainVars, users64, pdata64, bnetInstalled, jobVars, rgdVars, bnet,
                opVars, playVars, runnerVars, parseVars, supVars, envIn>>

\* get_or_create_default_prefix(arch), as install and get_bnet_config call it.
GetOrCreateDefaultPrefixCall(arch) ==
    /\ EnsureStep("ensure", arch)
    /\ EnvFrame

\* The property prefix_path: the game's prefix option, or the default prefix
\* for the game's arch option, created when it does not exist.
PrefixPath ==
    /\ IF envIn.cfg_prefix # None
       THEN /\ Logged(CallRec("prefix_path", "custom", "", <<envIn.cfg_prefix>>, 0, 0))
            /\ UNCHANGED <<prefixes, created>>
       ELSE EnsureStep("prefix_path", envIn.cfg_arch)
    /\ EnvFrame

\* is_installed()
IsInstalledCall ==
    LET r == WineBnetIsInstalled(envIn, prefixes)
    IN  /\ Logged(CallRec("is_installed", "", r.raised, <<r.value>>, 0, 0))
        /\ UNCHANGED <<prefixes, created>>
        /\ EnvFrame

\* Runner.is_installed()
RunnerIsInstalledCall ==
    LET r == RunnerIsInstalled(envIn)
    IN  /\ Logged(CallRec("runner_is_installed", "", r.raised, <<r.value>>, 0, 0))
        /\ UNCHANGED <<prefixes, created>>
        /\ EnvFrame

\* get_run_data(): {'command': self.launch_args, 'env': self.get_env(os_env=False)}
GetRunData ==
    LET c == BnetPathCandidates(prefixes)
        command == LaunchArgs(envIn, c.fs)
        value == IF command.raised # "" THEN <<>> ELSE <<command.value, GetEnv(envIn)>>
        made == Cardinality({d \in PrefixDirs : c.fs[d] # prefixes[d]})
    IN  /\ prefixes' = c.fs
        /\ created' = [d \in PrefixDirs |->
                          IF c.fs[d] # prefixes[d] THEN created[d] + 1 ELSE created[d]]
        /\ Logged(CallRec("get_run_data", "", command.raised, value, made, 0))
        /\ EnvFrame

\* The launcher and user.reg lie in the default prefix.
InitEnv ==
    /\ prefixes \in [PrefixDirs -> {"absent", "win32", "win64"}]
    /\ prefixes["prefix"] \in {"absent", "win32"}
    /\ prefixes["prefix64"] \in {"absent", "win64"}
    /\ users64 = IF prefixes["prefix64"] = "absent" THEN "absent" ELSE "dir"
    /\ pdata64 = users64
    /\ envIn \in EnvInputs
    /\ (envIn.exe32 \/ envIn.exe86 \/ envIn.user_reg) => prefixes["prefix"] # "absent"
    /\ bnetInstalled = (envIn.exe32 \/ envIn.exe86)
    /\ envLog = <<>>
    /\ created = [d \in PrefixDirs |-> 0]
    /\ VendorIdle
    /\ PlayIdle
    /\ RunnerIdle
    /\ ParseIdle
    /\ SupIdle

NextEnv ==
    \/ \E arch \in {None, "win32", "win64"} : GetOrCreateDefaultPrefixCall(arch)
    \/ PrefixPath
    \/ IsInstalledCall
    \/ RunnerIsInstalledCall
    \/ GetRunData

SpecEnv == InitEnv /\ [][NextEnv]_vars

\* ------------------------------------ util/bnet.py: products_parse, read_config

\* Records a product.db buffer is built from.
MaxRecords == 2
\* Bytes that may be missing at the end of the file.
MaxCut == 5
\* read_config calls on the same file that a behaviour follows.
MaxReads == 2

\* regex_product_db = re.compile(b'\x0A..\x0A'): the literal byte, and the
\* length of a match.
ANCHOR_BYTE == 10
ANCHOR_SIZE == 4
\* offset += 1 between name and the length byte of code.
SKIP_AFTER_NAME == 1
\* offset += 3 between code and the length byte of path.
SKIP_AFTER_CODE == 3

\* b"battle.net", the key read_config looks up.
RootName == <<98, 97, 116, 116, 108, 101, 46, 110, 101, 116>>

\* Python bytes, 0-based: buf[i] raises IndexError past the end, buf[lo:hi]
\* gives the bytes there are.
HasByte(b, i) == i < Len(b)

ByteAt(b, i) == b[i + 1]

Slice(b, lo, hi) == SubSeq(b, lo + 1, IF hi < Len(b) THEN hi ELSE Len(b))

\* bytes.decode(): the code points of the text; UnicodeDecodeError for a byte
\* that is not ASCII (no multi-byte sequence occurs in the buffers drawn).
Decode(bytes) ==
    IF \E i \in 1..Len(bytes) : bytes[i] >= 128
    THEN [raised |-> "UnicodeDecodeError", text |-> <<>>]
    ELSE [raised |-> "", text |-> bytes]

\* The pattern matches at i: the literal byte, two bytes that are not a newline
\* ('.' without re.DOTALL), the literal byte.
IsMatch(b, i) ==
    /\ i + ANCHOR_SIZE <= Len(b)
    /\ ByteAt(b, i) = ANCHOR_BYTE
    /\ ByteAt(b, i + 1) # 10
    /\ ByteAt(b, i + 2) # 10
    /\ ByteAt(b, i + 3) = ANCHOR_BYTE

\* The start of the leftmost match at or after from, -1 when there is none.
NextMatch(b, from) ==
    LET c == {i \in from..(Len(b) - ANCHOR_SIZE) : IsMatch(b, i)}
    IN  IF c = {} THEN -1 ELSE CHOOSE i \in c : \A j \in c : i <= j

Failed(exc) == [raised |-> exc, name |-> <<>>, code |-> <<>>, path |-> <<>>, end |-> 0]

\* The body of the loop of products_parse for the match at start, with the two
\* skips it makes: the fields it reads and the offset it ends at.
ReadRecordWith(b, start, skip1, skip2) ==
    LET o1 == start + ANCHOR_SIZE
    IN  IF ~HasByte(b, o1) THEN Failed("IndexError")
        ELSE
        LET len1 == ByteAt(b, o1)
            name == Decode(Slice(b, o1 + 1, o1 + 1 + len1))
            o2 == o1 + 1 + len1 + skip1
        IN  IF name.raised # "" THEN Failed(name.raised)
            ELSE IF ~HasByte(b, o2) THEN Failed("IndexError")
            ELSE
            LET len2 == ByteAt(b, o2)
                code == Decode(Slice(b, o2 + 1, o2 + 1 + len2))
                o3 == o2 + 1 + len2 + skip2
            IN  IF code.raised # "" THEN Failed(code.raised)
                ELSE IF ~HasByte(b, o3) THEN Failed("IndexError")
                ELSE
                LET len3 == ByteAt(b, o3)
                    path == Decode(Slice(b, o3 + 1, o3 + 1 + len3))
                IN  IF path.raised # "" THEN Failed(path.raised)
                    ELSE [raised |-> "", name |-> name.text, code |-> code.text,
                          path |-> path.text, end |-> o3 + 1 + len3]

ReadRecord_ShortSkip(b, start) == ReadRecordWith(b, start, SKIP_AFTER_NAME, 2)

ReadRecord(b, start) == ReadRecordWith(b, start, SKIP_AFTER_NAME, SKIP_AFTER_CODE)

Put_KeepFirst(products, key, value) ==
    [k \in DOMAIN products \cup {key} |->
        IF k \in DOMAIN products THEN products[k] ELSE value]

\* products[name] = {...}
Put(products, key, value) ==
    [k \in DOMAIN products \cup {key} |-> IF k = key THEN value ELSE products[k]]

ParseResult(exc, products) == [done |-> TRUE, raised |-> exc, products |-> products]

\* for match_obj in regex_product_db.finditer(buf): the matches do not overlap,
\* the search for the next one starts where the previous match ended.
RECURSIVE ScanFrom(_, _, _)
ScanFrom(b, from, products) ==
    LET start == NextMatch(b, from)
    IN  IF start = -1 THEN ParseResult("", products)
        ELSE LET r == ReadRecord(b, start)
             IN  IF r.raised # "" THEN ParseResult(r.raised, <<>>)
                 ELSE ScanFrom(b, start + ANCHOR_SIZE,
                               Put(products, r.name,
                                   [gameid |-> r.name, path |-> r.path, code |-> r.code]))

\* products_parse(file)
ProductsParse(b) == ScanFrom(b, 0, <<>>)

ConfigResult(exc, none, products) == [raised |-> exc, none |-> none, products |-> products]

ReadConfigFile_NoRootCheck(exists, b) ==
    IF ~exists THEN ConfigResult("", TRUE, <<>>)
    ELSE LET config == ProductsParse(b)
         IN  IF config.raised # "" THEN ConfigResult(config.raised, FALSE, <<>>)
             ELSE ConfigResult("", FALSE, config.products)

\* read_config(product_db_path): nothing when the file does not exist or the
\* parsed products have no 'battle.net' key (the KeyError is caught).
ReadConfigFile(exists, b) ==
    IF ~exists THEN ConfigResult("", TRUE, <<>>)
    ELSE LET config == ProductsParse(b)
         IN  IF config.raised # "" THEN ConfigResult(config.raised, FALSE, <<>>)
             ELSE IF RootName \notin DOMAIN config.products
                  THEN ConfigResult("", TRUE, <<>>)
             ELSE ConfigResult("", FALSE, config.products)

\* The records the buffers are built from: the first of the two bytes between
\* the literal bytes of the anchor, the name, the path, and the bytes that
\* products_parse skips ("tags": 0x12 after the name and 0x1A 0x00 0x0A after
\* the code; "newlines": 0x0A after the name and 0x0A 0x00 0x0A after the code).
RecordShapes ==
    {r \in [w1 : {1, 10},
            name : {<<97>>, RootName},
            path : {<<112, 49>>, <<112, 50>>},
            skipped : {"tags", "newlines"}] :
        r.w1 = 10 => r.skipped = "tags"}

RecordCode == <<99>>

\* The bytes of one record.
Encode(rec) ==
    <<ANCHOR_BYTE, rec.w1, 1, ANCHOR_BYTE>>
        \o <<Len(rec.name)>> \o rec.name
        \o <<IF rec.skipped = "tags" THEN 18 ELSE 10>>
        \o <<Len(RecordCode)>> \o RecordCode
        \o <<IF rec.skipped = "tags" THEN 26 ELSE 10, 0, 10>>
        \o <<Len(rec.path)>> \o rec.path

RECURSIVE EncodeAll(_)
EncodeAll(rs) == IF rs = <<>> THEN <<>> ELSE Encode(Head(rs)) \o EncodeAll(Tail(rs))

ParseFrame ==
    UNCHANGED <<mainVars, fsVars, jobVars, rgdVars, bnet, opVars, playVars,
                runnerVars, envVars, supVars, recs, cut, buf, fileExists>>

\* products_parse(file) on the open file.
ProductsParseCall ==
    /\ fileExists
    /\ ~parseOut.done
    /\ parseOut' = ProductsParse(buf)
    /\ UNCHANGED rcReads
    /\ ParseFrame

\* read_config(product_db_path)
ReadConfigCall ==
    /\ Len(rcReads) < MaxReads
    /\ rcReads' = Append(rcReads, ReadConfigFile(fileExists, buf))
    /\ UNCHANGED parseOut
    /\ ParseFrame

InitParse ==
    /\ prefixes = [d \in PrefixDirs |-> "win32"]
    /\ users64 = "absent"
    /\ pdata64 = "absent"
    /\ bnetInstalled = TRUE
    /\ VendorIdle
    /\ PlayIdle
    /\ RunnerIdle
    /\ EnvIdle
    /\ SupIdle
    /\ recs \in UNION {[1..n -> RecordShapes] : n \in 0..MaxRecords}
    /\ cut \in 0..MaxCut
    /\ cut <= Len(EncodeAll(recs))
    /\ buf = SubSeq(EncodeAll(recs), 1, Len(EncodeAll(recs)) - cut)
    /\ fileExists \in BOOLEAN
    /\ ~fileExists => (recs = <<>> /\ cut = 0)
    /\ parseOut = [done |-> FALSE, raised |-> "", products |-> <<>>]
    /\ rcReads = <<>>

NextParse ==
    \/ ProductsParseCall
    \/ ReadConfigCall

SpecParse == InitParse /\ [][NextParse]_vars

\* ------------------------------------------- winebattlenet.beat(self, thread)

\* Child processes of the game thread a behaviour follows at a time.
MaxChildren == 3
\* Runs of beat(thread) a behaviour follows.
MaxBeats == 3

\* gamelist[gameid][1]: the executable of the game.
GameExe(gameid) == "Overwatch.exe"

\* The names of the launcher processes beat(thread) looks for.
LauncherNames == {"Agent.exe", "Battle.net.exe"}

\* The processes thread.get_processes_list() can show: the game asleep, running
\* or defunct, the two launcher processes asleep or defunct, another process.
ChildProcs ==
    [name : {"Overwatch.exe"}, state : {"S", "R", "Z"}]
        \cup [name : LauncherNames, state : {"S", "Z"}]
        \cup [name : {"explorer.exe"}, state : {"S"}]

\* The runner option quit_bnet_on_play and the gameid of the game ('' when the
\* game configuration has none).
SupInputs == [quit_bnet_on_play : BOOLEAN, gameid : {"prometheus", ""}]

\* The launcher children that are not defunct.
LiveLaunchers(processes) ==
    {processes[i] : i \in {j \in DOMAIN processes :
                              /\ processes[j].name \in LauncherNames
                              /\ processes[j].state # "Z"}}

\* A beat(thread) that does not look at the state of the game's process.
BeatKills_AnyGameState(in, processes) ==
    IF in.gameid \notin Gamelist
    THEN [raised |-> TRUE, killed |-> {}]
    ELSE LET idx == {i \in DOMAIN processes : processes[i].name = GameExe(in.gameid)}
         IN  IF in.quit_bnet_on_play /\ idx # {}
             THEN [raised |-> FALSE, killed |-> LiveLaunchers(processes)]
             ELSE [raised |-> FALSE, killed |-> {}]

\* beat(thread) on the list get_processes_list() returned: gamelist[self.gameid]
\* raises KeyError for a gameid that is no key; names.index(gameExe) is the first
\* child of that name; kill_pid goes to every launcher child that is not defunct.
BeatKills(in, processes) ==
    IF in.gameid \notin Gamelist
    THEN [raised |-> TRUE, killed |-> {}]
    ELSE LET idx == {i \in DOMAIN processes : processes[i].name = GameExe(in.gameid)}
             first == CHOOSE i \in idx : \A j \in idx : i <= j
         IN  IF in.quit_bnet_on_play /\ idx # {} /\ processes[first].state = "S"
             THEN [raised |-> FALSE, killed |-> LiveLaunchers(processes)]
             ELSE [raised |-> FALSE, killed |-> {}]

SupFrame ==
    UNCHANGED <<mainVars, fsVars, jobVars, rgdVars, bnet, opVars, playVars,
                runnerVars, envVars, parseVars, supIn>>

\* The heartbeat of the game thread runs beat(thread), which reads the child
\* list anew.
PlayBeat ==
    /\ supTicks < MaxBeats
    /\ supTicks' = supTicks + 1
    /\ LET r == BeatKills(supIn, children)
       IN  /\ supKilled' = r.killed
           /\ supRaised' = r.raised
    /\ UNCHANGED children
    /\ SupFrame

\* A process starts under the game thread.
ChildSpawn(p) ==
    /\ Len(children) < MaxChildren
    /\ children' = Append(children, p)
    /\ UNCHANGED <<supTicks, supKilled, supRaised>>
    /\ SupFrame

\* A child process is gone.
ChildExit(i) ==
    /\ i \in DOMAIN children
    /\ children' = [j \in 1..(Len(children) - 1) |->
                        IF j < i THEN children[j] ELSE children[j + 1]]
    /\ UNCHANGED <<supTicks, supKilled, supRaised>>
    /\ SupFrame

\* A child process changes state.
ChildState(i, st) ==
    /\ i \in DOMAIN children
    /\ st # children[i].state
    /\ [name |-> children[i].name, state |-> st] \in ChildProcs
    /\ children' = [children EXCEPT ![i].state = st]
    /\ UNCHANGED <<supTicks, supKilled, supRaised>>
    /\ SupFrame

InitSup ==
    /\ prefixes = [d \in PrefixDirs |-> "win32"]
    /\ users64 = "absent"
    /\ pdata64 = "absent"
    /\ bnetInstalled = TRUE
    /\ VendorIdle
    /\ PlayIdle
    /\ RunnerIdle
    /\ EnvIdle
    /\ ParseIdle
    /\ supIn \in SupInputs
    /\ children = <<>>
    /\ supTicks = 0
    /\ supKilled = {}
    /\ supRaised = FALSE

NextSup ==
    \/ PlayBeat
    \/ \E p \in ChildProcs : ChildSpawn(p)
    \/ \E i \in 1..MaxChildren : ChildExit(i)
    \/ \E i \in 1..MaxChildren, st \in {"S", "R", "Z"} : ChildState(i, st)

SpecSup == InitSup /\ [][NextSup]_vars

\* ------------------------------------------------------------------ claims

\* Some run of beat has seen the installer thread not running.
HeartbeatObservedStopped == \E i \in 1..Len(tickLog) : ~tickLog[i].running

\* C1: over every interleaving of heartbeat ticks and invocations of the stop
\* command, on_bnet_installed, and hence the completion callback, is invoked
\* exactly once for an install job.  Stated for the jobs whose stop command was
\* invoked at most once: it is never invoked a second time.
C1_FinalizeExactlyOnce ==
    stopCmds <= 1 =>
        /\ finalizeCount <= 1
        /\ callbackCount <= 1

\* C2: a run of beat that sees the thread running does not finalize and returns
\* True; the run that sees it not running finalizes and returns False; no run
\* follows that one, so the finalize of the heartbeat happens on tick K+1 and
\* never before; with no stop command invoked the callback fires only then; at
\* most one run of beat is in progress.
C2_HeartbeatLoop ==
    /\ \A i \in 1..Len(tickLog) :
        LET t == tickLog[i]
        IN  /\ t.running => (~t.finalized /\ t.ret = "True")
            /\ ~t.running => (t.finalized /\ t.ret \in {"pending", "False"})
            /\ i < Len(tickLog) => (t.running /\ t.ret = "True")
            /\ (i = Len(tickLog) /\ t.ret = "pending") => pc \in {"fin_shutdown", "fin_callback"}
    /\ ticksActive <= 1
    /\ ticksActive = 1 <=> (ctx = "beat")
    /\ stopCmds = 0 =>
        /\ finalizeCount = Cardinality({i \in 1..Len(tickLog) : ~tickLog[i].running})
        /\ callbackCount <= finalizeCount
        /\ (timer = "cancelled" /\ hasCallback) => callbackCount = 1

\* K = 2 ticks saw the installer running, tick K+1 saw it stopped, finalized and
\* returned False; the callback fired once.
C2_Witness ==
    /\ Len(tickLog) = 3
    /\ tickLog[1].running /\ tickLog[2].running
    /\ ~tickLog[3].running /\ tickLog[3].ret = "False"
    /\ stopCmds = 0
    /\ callbackCount = 1
    /\ timer = "cancelled"

\* The orderings of C3 that do not involve finalization.
PhasesInOrder ==
    /\ (ensured32 \/ ensured64 \/ regeditDone \/ configWritten) => download \in {"ok", "failed"}
    /\ pc \in {"ensure32", "ensure64", "link_users", "link_pdata", "regedit", "config",
               "spawn", "setstop", "addtimer"} => download \in {"ok", "failed"}
    /\ ensured64 => ensured32
    /\ thread # "none" => (ensured32 /\ ensured64 /\ regeditDone /\ configWritten)
    /\ stopCmdSet => thread # "none"
    /\ timer # "none" => (thread # "none" /\ stopCmdSet)

\* C3 (as claimed): the phases of an install job are strictly sequential, and
\* finalization (shutdown, callback) happens only after the heartbeat has seen
\* the installer not running.
C3_PhasesSequential ==
    /\ PhasesInOrder
    /\ (finalizeCount > 0 \/ finShutdowns > 0 \/ callbackCount > 0) => HeartbeatObservedStopped

\* C3 (amended): the phases are strictly sequential, and finalization happens
\* only after the heartbeat was registered and either a run of it has seen the
\* installer not running or the installer thread's stop command was invoked.
C3_PhasesSequentialOrStopped ==
    /\ PhasesInOrder
    /\ (finalizeCount > 0 \/ finShutdowns > 0 \/ callbackCount > 0) =>
        /\ timer # "none"
        /\ HeartbeatObservedStopped \/ stopCmds > 0
    /\ finShutdowns <= finalizeCount
    /\ callbackCount <= finShutdowns

\* A job with a downloader override went through every phase and was finalized
\* by the stop command while the heartbeat had only seen the installer running.
C3_Witness ==
    /\ hasDownloader
    /\ download = "ok"
    /\ configWritten
    /\ thread = "running"
    /\ timer = "active"
    /\ Len(tickLog) >= 1
    /\ ~HeartbeatObservedStopped
    /\ stopCmds = 1
    /\ callbackCount = 1

\* C4: when the download of the installer failed, the job never enters
\* environment setup, never spawns the installer, never registers a heartbeat.
C4_DownloadFailureStopsJob ==
    download = "failed" =>
        /\ ~ensured32 /\ ~ensured64 /\ ~regeditDone /\ ~configWritten
        /\ thread = "none"
        /\ timer = "none"
        /\ pc \notin {"ensure32", "ensure64", "link_users", "link_pdata", "regedit",
                      "config", "spawn", "setstop", "addtimer"}

\* C5: the escalation of prelaunch succeeds whenever a poll saw the process not
\* running (also in the force-kill tier); it fails only after all 10 + 5 polls
\* saw it running and the kill was sent; it never makes more polls than that and
\* a poll is always left to make while it is waiting.
C5_ShutdownEscalation ==
    /\ polls1 <= TIER1_POLLS /\ polls2 <= TIER2_POLLS
    /\ pc = "pl_tier1" => polls1 < TIER1_POLLS
    /\ pc = "pl_tier2" => polls2 < TIER2_POLLS
    /\ polls2 > 0 => (polls1 = TIER1_POLLS /\ opKills = 1)
    /\ (lastOp = "prelaunch" /\ ~opDone) => lastPoll \in {"none", "running"}
    /\ (lastOp = "prelaunch" /\ opDone) =>
        /\ opResult \in {"True", "False"}
        /\ lastPoll = "notrunning" => opResult = "True"
        /\ opResult = "False" =>
            /\ polls1 = TIER1_POLLS
            /\ polls2 = TIER2_POLLS
            /\ opKills = 1
            /\ lastPoll = "running"
        /\ lastPoll = "running" => opResult = "False"

\* The process ignored the graceful stop for the whole first tier, was killed,
\* and was seen not running at a poll of the force-kill tier: success.
C5_Witness ==
    /\ lastOp = "prelaunch" /\ opDone
    /\ polls1 = TIER1_POLLS
    /\ opKills = 1
    /\ polls2 >= 2
    /\ lastPoll = "notrunning"
    /\ opResult = "True"

C7_InstallReturnsSuccess ==
    /\ (installReturned /\ jobSucceeded) => installResult = "True"
    /\ installResult = "True" => jobSucceeded
    /\ (rgdAnswer = "yes" /\ dialogResult # "unset") => dialogResult = installResult

\* C9: remove_game_data spawns the uninstaller exactly when the runner was
\* installed at the call or was successfully installed on the user's acceptance.
C9_UninstallerIffInstalled ==
    rgdState = "done" =>
        (uninstallerSpawned <=> (rgdInstalledAtCall \/ (rgdAnswer = "yes" /\ jobSucceeded)))

\* The disk states C10 lists: the database file, its root entry or the entry of
\* the configured game is absent, or the game directory or its executable is.
MissingTarget(in) ==
    \/ ~in.dbExists
    \/ "battle.net" \notin in.dbKeys
    \/ in.gameid \notin in.dbKeys
    \/ ~in.dirExists
    \/ ~in.exeExists

\* C10: with run_without_bnet, play() never raises for a missing target: for
\* every state of the product database and of the game's files it returns a
\* structured result with an error kind and the missing path.
C10_PlayReturnsErrorForMissingTarget ==
    (playOut.kind # "unset" /\ playIn.run_without_bnet /\ MissingTarget(playIn)) =>
        (playOut.kind = "error" /\ playOut.error # "" /\ playOut.file # "")

\* The versions of the API response made for this platform.
MatchingVersions(in) ==
    {i \in DOMAIN in.response.versions :
        in.response.versions[i].architecture = GetArchForApi(in)}

\* No artifact reference can be resolved: the static tarballs mapping has no
\* entry for self.arch, or (without a mapping) the API lists no version for the
\* platform, or several of which none is the default.
NoArtifact(in) ==
    IF in.tarballs.set /\ in.tarballs.archs # {}
    THEN GetArch(in) \notin in.tarballs.archs
    ELSE \/ ~in.response.json
         \/ MatchingVersions(in) = {}
         \/ /\ Cardinality(MatchingVersions(in)) > 1
            /\ \A i \in MatchingVersions(in) : ~in.response.versions[i].default

\* C8: when no artifact reference can be resolved, Runner.install shows the
\* error notice, returns False, raises nothing and starts no download or
\* extraction (and install_dialog returns that False).
C8_UnsupportedPlatform ==
    (rPc # "idle" /\ rViaDialog # "no" /\ NoArtifact(runIn)) =>
        /\ rPc = "done"
        /\ rResult = "False"
        /\ rLog = <<"error_dialog">>
        /\ rArchive = "absent"
        /\ rViaDialog = "yes" => rDialogResult = "False"

\* The API lists two versions for the platform, none of them the default:
\* install() has shown the error notice and returned False.
C8_Witness ==
    /\ rPc = "done"
    /\ ~runIn.tarballs.set
    /\ Cardinality(MatchingVersions(runIn)) = 2
    /\ rLog = <<"error_dialog">>
    /\ rResult = "False"

\* A logged call that resolved a default prefix for an architecture.
Resolves(e) == e.op = "ensure" \/ (e.op = "prefix_path" /\ e.arg # "custom")

C12_IsInstalledNeverThrows ==
    \A i \in 1..Len(envLog) :
        envLog[i].op \in {"is_installed", "runner_is_installed"} =>
            /\ envLog[i].raised = ""
            /\ envLog[i].value \in {<<"True">>, <<"False">>}

\* C13: get_or_create_default_prefix creates the prefix exactly when its path
\* was absent; a second call in sequence for the same architecture creates
\* nothing (no create_prefix, no makedirs) and returns the same path; no prefix
\* is ever created twice.
C13_EnsureIdempotent ==
    /\ \A i \in 1..Len(envLog) :
           Resolves(envLog[i]) =>
               /\ envLog[i].creates =
                      (IF envLog[i].fsBefore[envLog[i].value[1]] = "absent" THEN 1 ELSE 0)
               /\ envLog[i].makedirs <= envLog[i].creates
    /\ (Len(envLog) = 2 /\ Resolves(envLog[1]) /\ Resolves(envLog[2])
            /\ envLog[1].arg = envLog[2].arg) =>
           /\ envLog[2].creates = 0
           /\ envLog[2].makedirs = 0
           /\ envLog[2].value = envLog[1].value
    /\ \A d \in PrefixDirs : created[d] <= 1

\* Two calls in sequence for win64, the first of which created the prefix.
C13_Witness ==
    /\ Len(envLog) = 2
    /\ envLog[1].op = "ensure" /\ envLog[1].arg = "win64" /\ envLog[1].creates = 1
    /\ envLog[2].op = "ensure" /\ envLog[2].arg = "win64"
    /\ created["prefix64"] = 1

\* The architecture a default prefix path stands for.
ArchOfPath(d) == IF d = "prefix64" THEN "win64" ELSE "win32"

\* C14: the same architecture always resolves to the same path, two different
\* architecture values never resolve to the same path, and every prefix on disk
\* was created with the architecture its path stands for.
C14_PathPerArchitecture ==
    /\ \A i, j \in 1..Len(envLog) :
           (Resolves(envLog[i]) /\ Resolves(envLog[j])) =>
               (envLog[i].arg = envLog[j].arg <=> envLog[i].value = envLog[j].value)
    /\ \A d \in PrefixDirs : prefixes[d] # "absent" => prefixes[d] = ArchOfPath(d)

\* The names of the records the buffer was built from are pairwise distinct.
DistinctNames == \A i, j \in 1..Len(recs) : recs[i].name = recs[j].name => i = j

\* C15: for a buffer of N whole records with pairwise distinct gameids,
\* products_parse returns a mapping with exactly the N gameids as keys, and each
\* entry holds the path and the code stored in its record.
C15_ParsesEveryRecord ==
    (parseOut.done /\ cut = 0 /\ DistinctNames) =>
        /\ parseOut.raised = ""
        /\ DOMAIN parseOut.products = {recs[i].name : i \in 1..Len(recs)}
        /\ \A i \in 1..Len(recs) :
               parseOut.products[recs[i].name] =
                   [gameid |-> recs[i].name, path |-> recs[i].path, code |-> RecordCode]

\* The buffer ends inside its last record.
EndsMidRecord ==
    /\ recs # <<>>
    /\ cut > 0
    /\ cut < Len(Encode(recs[Len(recs)]))

\* C16: for a buffer that ends in the middle of a record products_parse fails
\* and returns no mapping.
C16_TruncationFails ==
    (parseOut.done /\ EndsMidRecord) => parseOut.raised # ""

\* A scan that looks for the next anchor only after the bytes the previous
\* record consumed.
RECURSIVE ScanConsumed(_, _, _)
ScanConsumed(b, from, products) ==
    LET start == NextMatch(b, from)
    IN  IF start = -1 THEN ParseResult("", products)
        ELSE LET r == ReadRecord(b, start)
             IN  IF r.raised # "" THEN ParseResult(r.raised, <<>>)
                 ELSE ScanConsumed(b, r.end,
                                   Put(products, r.name,
                                       [gameid |-> r.name, path |-> r.path,
                                        code |-> r.code]))

\* C17: an anchor pattern inside the bytes a previous record consumed (its
\* fields and skipped bytes) does not start a record: the result is that of a
\* scan that resumes after the consumed bytes.
C17_NoRescanOfConsumedBytes ==
    parseOut.done => parseOut = ScanConsumed(buf, 0, <<>>)

\* C18: read_config returns a mapping only when the parsed products hold the
\* key 'battle.net'; it returns nothing, without raising, when the file does
\* not exist or the parsed products lack that key; two reads of the unchanged
\* file that return a mapping return equal mappings.
C18_ReadConfigNeedsRoot ==
    /\ \A i \in 1..Len(rcReads) :
           /\ (rcReads[i].raised = "" /\ ~rcReads[i].none) =>
                  /\ fileExists
                  /\ RootName \in DOMAIN rcReads[i].products
                  /\ rcReads[i].products = ProductsParse(buf).products
           /\ (~fileExists \/ (ProductsParse(buf).raised = ""
                               /\ RootName \notin DOMAIN ProductsParse(buf).products)) =>
                  (rcReads[i].raised = "" /\ rcReads[i].none)
    /\ (Len(rcReads) >= 2 /\ ~rcReads[1].none /\ rcReads[1].raised = "") =>
           rcReads[2] = rcReads[1]

\* Two reads of a database with the root entry and one more record returned a
\* mapping.
C18_Witness ==
    /\ Len(rcReads) = 2
    /\ rcReads[1].raised = "" /\ ~rcReads[1].none
    /\ Cardinality(DOMAIN rcReads[2].products) = 2

\* The starts of the matches of the anchor pattern, in scan order.
RECURSIVE MatchSeq(_, _)
MatchSeq(b, from) ==
    LET start == NextMatch(b, from)
    IN  IF start = -1 THEN <<>> ELSE <<start>> \o MatchSeq(b, start + 4)

\* The record at an anchor start under a layout given by positions: the length
\* byte of name 4 bytes after the start, the length byte of code gap bytes
\* after the name, the length byte of path 3 bytes after the code.
LayoutRecord(b, start, gap) ==
    LET nameLenAt == start + 4
        nameLen == IF nameLenAt < Len(b) THEN b[nameLenAt + 1] ELSE 0
        codeLenAt == nameLenAt + 1 + nameLen + gap
        codeLen == IF codeLenAt < Len(b) THEN b[codeLenAt + 1] ELSE 0
        pathLenAt == codeLenAt + 1 + codeLen + 3
        pathLen == IF pathLenAt < Len(b) THEN b[pathLenAt + 1] ELSE 0
        field(at, n) == [i \in 1..(IF at + n <= Len(b) THEN n
                                   ELSE IF at <= Len(b) THEN Len(b) - at ELSE 0)
                            |-> b[at + i]]
    IN  [complete |-> pathLenAt < Len(b),
         name |-> field(nameLenAt + 1, nameLen),
         code |-> field(codeLenAt + 1, codeLen),
         path |-> field(pathLenAt + 1, pathLen)]

\* The reference scanner for a layout: it fails when some record's length byte
\* lies past the end, else maps each name to the last record carrying it.
LayoutParse(b, gap) ==
    LET ms == MatchSeq(b, 0)
        rec(i) == LayoutRecord(b, ms[i], gap)
        names == {rec(i).name : i \in 1..Len(ms)}
        last(k) == CHOOSE i \in 1..Len(ms) :
                       /\ rec(i).name = k
                       /\ \A j \in 1..Len(ms) : rec(j).name = k => j <= i
    IN  IF \E i \in 1..Len(ms) : ~rec(i).complete
        THEN [done |-> TRUE, raised |-> "IndexError", products |-> <<>>]
        ELSE [done |-> TRUE, raised |-> "",
              products |-> [k \in names |->
                               [gameid |-> k, path |-> rec(last(k)).path,
                                code |-> rec(last(k)).code]]]

\* C19 as stated: the result of products_parse is that of the reference scanner
\* that reads the length byte of code immediately after name.
C19_SpecLayout ==
    parseOut.done => parseOut = LayoutParse(buf, 0)

\* C19 as amended: the result of products_parse is that of the reference
\* scanner that skips one byte between name and the length byte of code.
C19_LayoutWithNameSkip ==
    parseOut.done => parseOut = LayoutParse(buf, 1)

\* products_parse returned two entries.
C19_Witness ==
    /\ parseOut.done
    /\ parseOut.raised = ""
    /\ Cardinality(DOMAIN parseOut.products) = 2

\* C20: the mapping has one entry per gameid among the records read in scan
\* order, and the entry of a gameid holds the path and code of the last record
\* read with it.
C20_LastMatchWins ==
    (parseOut.done /\ parseOut.raised = "") =>
        LET ms == MatchSeq(buf, 0)
            read(i) == ReadRecord(buf, ms[i])
        IN  /\ DOMAIN parseOut.products = {read(i).name : i \in 1..Len(ms)}
            /\ \A i \in 1..Len(ms) :
                   (\A j \in 1..Len(ms) : read(j).name = read(i).name => j <= i) =>
                       /\ parseOut.products[read(i).name].path = read(i).path
                       /\ parseOut.products[read(i).name].code = read(i).code

\* Two whole records with the same gameid and different paths were parsed, and
\* the entry holds the path of the second.
C20_Witness ==
    /\ parseOut.done
    /\ parseOut.raised = ""
    /\ cut = 0
    /\ Len(recs) = 2
    /\ recs[1].name = recs[2].name
    /\ recs[1].path # recs[2].path
    /\ DOMAIN parseOut.products = {recs[1].name}
    /\ parseOut.products[recs[1].name].path = recs[2].path

\* The positions of the control inside prelaunch().
PrelaunchPcs == {"pl_check", "pl_tier1", "pl_kill", "pl_tier2"}

\* What the counters of a prelaunch() show of the order of its calls.
PrelaunchCallsInOrder ==
    lastOp = "prelaunch" =>
        /\ opGraceful <= 1 /\ opKills <= 1
        /\ (polls1 > 0 \/ polls2 > 0 \/ opKills > 0) => opGraceful = 1
        /\ opKills > 0 => polls1 = TIER1_POLLS
        /\ polls2 > 0 => opKills = 1
        /\ lastPoll = "notrunning" => (opDone /\ opResult = "True")
        /\ opDone => pc \notin PrelaunchPcs

\* C21: prelaunch() that finds Battle.net not running at entry sends neither the
\* graceful stop nor the kill and returns True; one that finds it running sends
\* the graceful stop before any poll, kills at most once and only after all 10
\* polls of the first tier saw the process running, and makes no poll and no
\* kill after a poll that saw the process not running (the counters stay as
\* they are until the next operation resets them).
C21_PrelaunchOrdering ==
    [][/\ PrelaunchCallsInOrder'
       /\ (pc = "pl_check" /\ pc' # "pl_check") =>
            /\ polls1' = 0 /\ polls2' = 0 /\ opKills' = 0
            /\ IF IsRunning
               THEN opGraceful' = 1 /\ ~opDone' /\ pc' = "pl_tier1"
               ELSE opGraceful' = 0 /\ opDone' /\ opResult' = "True"
       /\ (lastOp = "prelaunch" /\ lastPoll = "notrunning") =>
            \/ polls1' = polls1 /\ polls2' = polls2 /\ opKills' = opKills
            \/ polls1' = 0 /\ polls2' = 0 /\ lastPoll' = "none"]_vars

\* Battle.net ran at entry and through the ten polls that followed the graceful
\* stop, was killed once, and the first poll after the kill saw it gone.
C21_Witness ==
    /\ lastOp = "prelaunch" /\ opDone
    /\ opGraceful = 1
    /\ polls1 = TIER1_POLLS
    /\ opKills = 1
    /\ polls2 = 1
    /\ lastPoll = "notrunning"
    /\ opResult = "True"

\* Within every on_bnet_installed the shutdown comes first and the callback,
\* when there is one, second; a finalization that has returned has done both.
ShutdownThenCallback ==
    /\ callbackCount <= finShutdowns
    /\ finShutdowns > 0 => (regeditDone /\ configWritten)
    /\ pc = "fin_shutdown" =>
        /\ finShutdowns = finalizeCount - 1
        /\ callbackCount = IF hasCallback THEN finShutdowns ELSE 0
    /\ pc = "fin_callback" =>
        /\ finShutdowns = finalizeCount
        /\ callbackCount = IF hasCallback THEN finShutdowns - 1 ELSE 0
    /\ pc \notin {"fin_shutdown", "fin_callback"} =>
        /\ finShutdowns = finalizeCount
        /\ callbackCount = IF hasCallback THEN finShutdowns ELSE 0

\* C22 (as claimed): the registry edits and the config document are written
\* after the heartbeat has seen the installer not running, as the first part of
\* finalization; then the shutdown runs, and only then the callback; the
\* shutdown runs also when there is no callback.
C22_HooksThenShutdownThenCallback ==
    /\ (regeditDone \/ configWritten) => HeartbeatObservedStopped
    /\ ShutdownThenCallback

\* C22 (amended): the registry edits and the config document are written before
\* the installer is spawned; finalization is the shutdown and then the callback,
\* in this order, and the shutdown runs also when there is no callback.
C22_ShutdownThenCallback ==
    /\ thread # "none" => (regeditDone /\ configWritten)
    /\ pc = "spawn" => (regeditDone /\ configWritten)
    /\ ShutdownThenCallback

\* A job with a callback was finalized by the heartbeat: one shutdown, then one
\* call of the callback.
C22_Witness ==
    /\ hasCallback
    /\ HeartbeatObservedStopped
    /\ stopCmds = 0
    /\ pc = "loop"
    /\ finShutdowns = 1
    /\ callbackCount = 1

\* C23: the link step of an install job is total and idempotent over the states
\* of drive_c/users and drive_c/ProgramData of the win64 prefix: it raises in
\* none of them (also not when the directory is absent) and once it is past a
\* directory, that directory is a link to the win32 one.
C23_LinkStepTotalIdempotent ==
    /\ ~raised
    /\ (ensured64 /\ pc # "link_users") => users64 = "link"
    /\ (ensured64 /\ pc \notin {"link_users", "link_pdata"}) => pdata64 = "link"

\* C24: a heartbeat run whose finalization raises does not wedge the job: the
\* job never rests with the installer not running, the heartbeat cancelled and
\* the completion callback never invoked, unless a failure was recorded.
C24_RaisingFinalizeDoesNotWedge ==
    (/\ pc = "loop"
     /\ thread = "exited"
     /\ timer = "cancelled"
     /\ hasCallback
     /\ callbackCount = 0) => FailureRecorded

\* C25: is_running() is True exactly when a Battle.net.exe pid is found and the
\* process is not in state 'Z': every poll of prelaunch() and its test at entry
\* (which decides whether the graceful stop is sent) answer so, a defunct or
\* absent process counting as not running; kill() signals the pid it finds
\* whatever the state of the process.
C25_IsRunningExcludesZombies ==
    [][/\ (polls1' = polls1 + 1 \/ polls2' = polls2 + 1) =>
            (lastPoll' = "running" <=> (bnet # "absent" /\ bnet # "Z"))
       /\ (pc = "pl_check" /\ pc' # "pl_check") =>
            (opGraceful' = 1 <=> (bnet # "absent" /\ bnet # "Z"))
       /\ opKills' = opKills + 1 => killed' = bnet]_vars

\* The process became defunct after the tenth poll: kill() signalled the pid of
\* the defunct process, and the poll after it reported not running.
C25_Witness ==
    /\ lastOp = "prelaunch"
    /\ opKills = 1
    /\ killed = "Z"
    /\ bnet = "Z"
    /\ polls2 = 1
    /\ lastPoll = "notrunning"

\* The children of the game thread, as a set.
ChildSet == {children[i] : i \in DOMAIN children}

\* C26: in every run of beat(thread), on the child list as it is at that run: a
\* process is passed to kill_pid only if quit_bnet_on_play is on and a child
\* with the name of the game's executable is in state 'S'; every process killed
\* is a child named Agent.exe or Battle.net.exe that is not defunct; the game's
\* own process is never killed; with the option off, or no child with the
\* game's name, nothing is killed.
C26_KillsOnlyLauncherWhileGameRuns ==
    [][supTicks' = supTicks + 1 =>
        LET game == {c \in ChildSet : c.name = GameExe(supIn.gameid)}
        IN  /\ supKilled' # {} =>
                /\ supIn.quit_bnet_on_play
                /\ \E c \in game : c.state = "S"
            /\ \A k \in supKilled' :
                /\ k \in ChildSet
                /\ k.name \in {"Agent.exe", "Battle.net.exe"}
                /\ k.state # "Z"
                /\ k \notin game
            /\ (~supIn.quit_bnet_on_play \/ game = {}) => supKilled' = {}]_vars

\* The game sleeps in its main loop with both launcher processes alive: a run
\* of beat killed the two of them.
C26_Witness ==
    /\ supIn.quit_bnet_on_play
    /\ supTicks >= 1
    /\ children = <<[name |-> "Battle.net.exe", state |-> "S"],
                    [name |-> "Agent.exe", state |-> "S"],
                    [name |-> "Overwatch.exe", state |-> "S"]>>
    /\ supKilled = {[name |-> "Battle.net.exe", state |-> "S"],
                    [name |-> "Agent.exe", state |-> "S"]}

\* C27: remove_game_data starts the uninstaller only when the prelaunch() it
\* called has returned True (Battle.net seen not running); when the escalation
\* failed, no uninstaller is started.
C27_UninstallerOnlyAfterShutdown ==
    [][(~uninstallerSpawned /\ uninstallerSpawned') =>
        (lastOp = "prelaunch" /\ opDone /\ opResult = "True")]_vars

\* What the log of a generic install shows of download_and_extract.
ExtractThenRemove ==
    /\ rResult = "True" =>
        (rLog = <<"download", "extract", "remove">> /\ rArchive = "absent")
    /\ (rResult = "False" /\ rLog # <<>> /\ rLog[1] = "download") =>
        (rLog = <<"download">> /\ rArchive = "absent")
    /\ \A i \in DOMAIN rLog :
        rLog[i] = "remove" => (i > 1 /\ rLog[i - 1] = "extract")
    /\ rPc = "r_remove" => rArchive = "present"

\* C28: download_and_extract, the download dialog having returned: with the
\* archive absent it returns False, extracting and removing nothing; with the
\* archive present it extracts, then removes the archive, then returns True.
\* It returns True only after an extraction, and the archive is never removed
\* before it was extracted.
C28_DownloadAndExtract ==
    [][/\ ExtractThenRemove'
       /\ (rPc = "r_check" /\ rPc' # "r_check") =>
            IF rArchive = "absent"
            THEN rResult' = "False" /\ rLog' = rLog /\ rArchive' = "absent"
            ELSE /\ rLog' = Append(rLog, "extract")
                 /\ rArchive' = "present"
                 /\ rResult' = "unset"
       /\ (rPc = "r_remove" /\ rPc' # "r_remove") =>
            /\ rLog' = Append(rLog, "remove")
            /\ rArchive' = "absent"
            /\ rResult' = "True"]_vars

\* The archive was there after the download: it was extracted, then removed,
\* and install() returned True.
C28_Witness ==
    /\ rPc = "done"
    /\ rLog = <<"download", "extract", "remove">>
    /\ rArchive = "absent"
    /\ rResult = "True"

====
